---- MODULE Spec2Model ----
(***************************************************************************)
(* Ferrari strategy planner: the calculation engine (Calculations), the    *)
(* static configuration (Config) and the authentication module (Auth).     *)
(*                                                                         *)
(* Real numbers are held in fixed point with eight decimals (Scale), the   *)
(* tyre percentage `remaining` in hundredths, as Utils.formatNumber(x, 2)  *)
(* prints it.  Time is counted in ticks of five minutes.                   *)
(***************************************************************************)
EXTENDS Integers, Sequences, FiniteSets, TLC

(***************************************************************************)
(* Bounds of the exploration.                                              *)
(***************************************************************************)
MaxLaps == 40
MaxStintsBound == 6

\* The ticks of five minutes the page's clock is followed for.
MaxTime == 4

\* The loginWithRateLimit calls that may wait on login() at once.
MaxPending == 2

(***************************************************************************)
(* Fixed-point arithmetic: a real x is the integer x * Scale.              *)
(***************************************************************************)
Scale == 10000 * 10000

Half == 100 * 100

\* a * b / Scale without leaving 32 bits: both factors split in two halves.
MulFix(a, b) ==
    LET ah == a \div Half
        al == a % Half
        bh == b \div Half
        bl == b % Half
    IN  ah * bh + (ah * bl) \div Half + (al * bh) \div Half
        + (al * bl) \div Scale

\* Math.exp(-1) in fixed point.
ExpMinusOne == 36787944

\* The Taylor polynomial of exp(-r), 0 <= r < 1, in Horner form:
\* 1 - r/1 (1 - r/2 (1 - r/3 ( ... (1 - r/12)))).
RECURSIVE ExpHorner(_, _, _)
ExpHorner(r, n, acc) ==
    IF n = 0 THEN acc
    ELSE ExpHorner(r, n - 1, Scale - MulFix(r, acc) \div n)

RECURSIVE ExpPow(_, _)
ExpPow(acc, k) == IF k = 0 THEN acc ELSE ExpPow(MulFix(acc, ExpMinusOne), k - 1)

\* Math.exp(-x) for x >= 0 in fixed point.
ExpNeg(x) == ExpPow(ExpHorner(x % Scale, 12, Scale), x \div Scale)

\* Utils.formatNumber(100 * v, 2) of a fixed-point v in [0, 1], in hundredths.
FormatHundredths(v) == (v + 5000) \div 10000

(***************************************************************************)
(* Config: the circuit catalog (length in metres) and the boost table.     *)
(***************************************************************************)
circuitsData ==
    "ABU" :> [name |-> "Abu Dhabi", length |-> 5410, laps |-> 25, tyreWear |-> 50, difficulty |-> "Medium"] @@
    "AUS" :> [name |-> "Australia", length |-> 5301, laps |-> 28, tyreWear |-> 40, difficulty |-> "Hard"] @@
    "AUT" :> [name |-> "Austria", length |-> 4044, laps |-> 34, tyreWear |-> 60, difficulty |-> "Medium"] @@
    "AZE" :> [name |-> "Azerbaijan", length |-> 6049, laps |-> 23, tyreWear |-> 45, difficulty |-> "Hard"] @@
    "BAH" :> [name |-> "Bahrain", length |-> 4726, laps |-> 29, tyreWear |-> 60, difficulty |-> "Medium"] @@
    "BEL" :> [name |-> "Belgium", length |-> 7041, laps |-> 21, tyreWear |-> 60, difficulty |-> "Hard"] @@
    "BRA" :> [name |-> "Brazil", length |-> 3971, laps |-> 34, tyreWear |-> 60, difficulty |-> "Medium"] @@
    "CAN" :> [name |-> "Canada", length |-> 4341, laps |-> 31, tyreWear |-> 45, difficulty |-> "Medium"] @@
    "CHN" :> [name |-> "China", length |-> 5442, laps |-> 27, tyreWear |-> 80, difficulty |-> "Hard"] @@
    "EUR" :> [name |-> "Europe", length |-> 5590, laps |-> 25, tyreWear |-> 45, difficulty |-> "Medium"] @@
    "FRA" :> [name |-> "France", length |-> 5881, laps |-> 24, tyreWear |-> 80, difficulty |-> "Hard"] @@
    "GBR" :> [name |-> "Great Britain", length |-> 5751, laps |-> 24, tyreWear |-> 65, difficulty |-> "Hard"] @@
    "GER" :> [name |-> "Germany", length |-> 4179, laps |-> 33, tyreWear |-> 50, difficulty |-> "Medium"] @@
    "HUN" :> [name |-> "Hungary", length |-> 3498, laps |-> 39, tyreWear |-> 30, difficulty |-> "Easy"] @@
    "ITA" :> [name |-> "Italy", length |-> 5401, laps |-> 25, tyreWear |-> 35, difficulty |-> "Medium"] @@
    "JAP" :> [name |-> "Japan", length |-> 5058, laps |-> 27, tyreWear |-> 70, difficulty |-> "Hard"] @@
    "MAL" :> [name |-> "Malaysia", length |-> 5536, laps |-> 27, tyreWear |-> 85, difficulty |-> "Hard"] @@
    "MEX" :> [name |-> "Mexico", length |-> 4308, laps |-> 35, tyreWear |-> 60, difficulty |-> "Medium"] @@
    "MON" :> [name |-> "Monaco", length |-> 4015, laps |-> 29, tyreWear |-> 20, difficulty |-> "Very Hard"] @@
    "RUS" :> [name |-> "Russia", length |-> 6077, laps |-> 23, tyreWear |-> 50, difficulty |-> "Medium"] @@
    "SIN" :> [name |-> "Singapore", length |-> 5049, laps |-> 30, tyreWear |-> 45, difficulty |-> "Hard"] @@
    "SPA" :> [name |-> "Spain", length |-> 4457, laps |-> 31, tyreWear |-> 85, difficulty |-> "Hard"] @@
    "TUR" :> [name |-> "Turkey", length |-> 5162, laps |-> 27, tyreWear |-> 90, difficulty |-> "Very Hard"] @@
    "USA" :> [name |-> "USA", length |-> 4602, laps |-> 30, tyreWear |-> 65, difficulty |-> "Medium"]

\* The keys a lookup on an object literal finds although the literal does
\* not hold them: the properties it inherits from Object.prototype.
\* 'constructor' stands for them; its value is the function Object.
InheritedKeys == {"constructor"}

\* NaN, which the arithmetic on an undefined field yields; every comparison
\* with it is false.
NaN == -1

Less(a, b) == a # NaN /\ b # NaN /\ a < b

\* Utils.formatNumber on a value already rounded to its decimals: the text
\* is held as the number it denotes, and isNaN(num) gives '0'.
formatNumber(num) == IF num = NaN THEN 0 ELSE num

\* this.circuitsData[key] where it is truthy.  The function Object has the
\* name 'Object' and the length 1 (a kilometre here), and no laps, tyreWear or
\* difficulty: the arithmetic on these is NaN.
CatalogEntry(key) ==
    IF key \in DOMAIN circuitsData THEN circuitsData[key]
    ELSE [name |-> "Object", length |-> 1000, laps |-> NaN, tyreWear |-> NaN,
          difficulty |-> "undefined"]

\* The test !c of the calculators on c = this.circuitsData[key], negated.
HasCircuit(key) == key \in DOMAIN circuitsData \cup InheritedKeys

(***************************************************************************)
(* Calculations.calculateTyreWear                                          *)
(***************************************************************************)
\* The tyre-point values the model draws.
TyrePointsSet == {1, 49, 100}

\* Math.pow(Te / 1.5, -0.0778) in fixed point, for the values of TyrePointsSet.
PowTe(Te) ==
    CASE Te = 1   -> 103204801
      [] Te = 49  -> 76243468
      [] Te = 100 -> 72127337

Max(a, b) == IF a >= b THEN a ELSE b

Min(a, b) == IF a <= b THEN a ELSE b

\* String.prototype.toUpperCase on the compound keys.
ToUpperCase(s) ==
    CASE s = "ss" -> "SS"
      [] s = "s"  -> "S"
      [] s = "m"  -> "M"
      [] s = "h"  -> "H"
      [] OTHER    -> s

\* The multipliers as the README states them: Soft and Hard scaled from the
\* SuperSoft rate.
compoundMultipliers_FromSuperSoft(key) ==
    CASE key = "SS" -> 206000000
      [] key = "S"  -> 132252000
      [] key = "M"  -> Scale
      [] key = "H"  -> 77250000
      [] OTHER      -> Scale

\* compoundMultipliers[key] || 1.0, in fixed point.
compoundMultipliers(key) ==
    CASE key = "SS" -> 206000000
      [] key = "S"  -> 64200000
      [] key = "M"  -> Scale
      [] key = "H"  -> 37500000
      [] OTHER      -> Scale

\* W_M / 100: the Medium wear per lap, as a fraction of the tyre.
BaseWear(c, tyrePoints) ==
    LET Te    == Max(1, tyrePoints)
        Tw    == c.tyreWear
        D     == c.length * 100000
        D0    == 50
        step2 == PowTe(Te)
        step3 == MulFix(143000000, step2)
        step4 == 364000 * Tw + 35400000
        step5 == MulFix(step3, step4)
        step6 == MulFix(D, 138461200)
        step7 == MulFix(step5, step6)
    IN  MulFix(step7, (200 - D0) * (Scale \div 10000))

\* Wc / 100: the wear per lap on the compound, as a fraction of the tyre.
CompoundWear(c, compound, tyrePoints) ==
    MulFix(BaseWear(c, tyrePoints), compoundMultipliers(ToUpperCase(compound)))

\* The tyre wearing by the same amount every lap (of the first 40) instead
\* of decaying: 1 - 1.18 * (Wc / 100) * N.
RemainingFraction_Linear(c, compound, laps, tyrePoints) ==
    Scale - MulFix(118000000, CompoundWear(c, compound, tyrePoints))
                * Min(Max(1, laps), 40)

\* exp(-1.18 * (Wc / 100) * N) in fixed point; it is below 0.000000005, and
\* printed 0.00, once the exponent passes 20.
RemainingFraction(c, compound, laps, tyrePoints) ==
    LET N      == Max(1, laps)
        Wc     == CompoundWear(c, compound, tyrePoints)
        perLap == MulFix(118000000, Wc)
    IN  IF N > (20 * Scale) \div perLap THEN 0 ELSE ExpNeg(perLap * N)

calculatePerformanceImpact(remaining) ==
    IF remaining >= 80 * (Scale \div 100) THEN "Excelente"
    ELSE IF remaining >= 60 * (Scale \div 100) THEN "Buena"
    ELSE IF remaining >= 40 * (Scale \div 100) THEN "Aceptable"
    ELSE IF remaining >= 20 * (Scale \div 100) THEN "Degradada"
    ELSE "Critica"

calculatePitWindow(remaining) ==
    IF remaining > 70 * (Scale \div 100) THEN "low"
    ELSE IF remaining > 40 * (Scale \div 100) THEN "medium"
    ELSE IF remaining > 20 * (Scale \div 100) THEN "high"
    ELSE "critical"

\* Utils.formatNumber(100 * v, 3) of a fixed-point v, in thousandths.
FormatThousandths(v) == (v + 500) \div 1000

\* remaining and totalWear are in hundredths of a percent (two decimals),
\* baseWear and baseWearWithCompound in thousandths (three decimals).
calculateTyreWear(circuit, compound, laps, tyrePoints) ==
    IF ~HasCircuit(circuit)
    THEN [success |-> FALSE, error |-> "Circuito no encontrado",
          baseWear |-> 0, remaining |-> 10000]
    ELSE IF laps <= 0 \/ tyrePoints <= 0
    THEN [success |-> FALSE, error |-> "Valores invalidos",
          baseWear |-> 0, remaining |-> 10000]
    ELSE IF CatalogEntry(circuit).tyreWear = NaN
    THEN [success |-> TRUE, error |-> "",
          baseWear |-> formatNumber(NaN),
          baseWearWithCompound |-> formatNumber(NaN),
          remaining |-> formatNumber(NaN),
          totalWear |-> formatNumber(NaN),
          compound |-> ToUpperCase(compound),
          compoundMultiplier |-> compoundMultipliers(ToUpperCase(compound)),
          performanceImpact |-> "Critica",
          recommendedPitWindow |-> "critical",
          lapsCompleted |-> Max(1, laps)]
    ELSE LET c == CatalogEntry(circuit)
             r == RemainingFraction(c, compound, laps, tyrePoints)
         IN  [success |-> TRUE, error |-> "",
              baseWear |-> FormatThousandths(BaseWear(c, tyrePoints)),
              baseWearWithCompound |->
                  FormatThousandths(CompoundWear(c, compound, tyrePoints)),
              remaining |-> FormatHundredths(r),
              totalWear |-> FormatHundredths(Scale - r),
              compound |-> ToUpperCase(compound),
              compoundMultiplier |-> compoundMultipliers(ToUpperCase(compound)),
              performanceImpact |-> calculatePerformanceImpact(r),
              recommendedPitWindow |-> calculatePitWindow(r),
              lapsCompleted |-> Max(1, laps)]

(***************************************************************************)
(* The Calculations instance over a series of calls.                       *)
(*   instance  its fields this.circuitsData and this.boostLevels           *)
(*   history   the calls made on it so far: the arguments, the result and  *)
(*             the strategy argument as it is after the call               *)
(***************************************************************************)
VARIABLES instance, history

repeatVars == <<instance, history>>

(***************************************************************************)
(* Utils.handleError / Utils.handleSuccess: the discriminated result.      *)
(***************************************************************************)
handleError(message, context) ==
    [success |-> FALSE, error |-> message, context |-> context]

\* handleSuccess numbering its results: the count of the calls made before.
handleSuccess_Counted(data, message) ==
    [success |-> TRUE, data |-> data, message |-> message,
     count |-> Len(history)]

handleSuccess(data, message) ==
    [success |-> TRUE, data |-> data, message |-> message]

(***************************************************************************)
(* Calculations: the fuel model.  Litres are held to the fifth decimal;     *)
(* a result field is the integer toFixed prints, without its point.        *)
(***************************************************************************)
\* The fuel-point values for which the power below is tabulated.
FuelPointsSet == {1, 49, 100}

\* 98.45644 * Math.pow(fuelPoints, -0.088463) / 139.771 in fixed point: the
\* litres per kilometre.
FuelCoefficient(fuelPoints) ==
    CASE fuelPoints = 1   -> 70441250
      [] fuelPoints = 49  -> 49923755
      [] fuelPoints = 100 -> 46870659

\* The litres (fifth decimal) for a distance in metres.
FuelOver(fuelPoints, metres) ==
    LET K  == FuelCoefficient(Max(1, fuelPoints))
        K5 == K \div 1000
        k3 == K % 1000
        km == metres \div 1000
        m  == metres % 1000
    IN  K5 * km + (K5 * m + k3 * km) \div 1000

\* Number(x).toFixed(d) of a value held to the fifth decimal, as the integer
\* x * 10^d: unit is 10^(5 - d).
ToFixedFrom5(x, unit) == (x + unit \div 2) \div unit

\* calculateFuelEfficiency: rating and fuelPerKm (three decimals).
calculateFuelEfficiency(fuelPerLap, circuitLength) ==
    IF fuelPerLap = NaN
    THEN [rating |-> "Muy Pobre", color |-> "red",
          fuelPerKm |-> formatNumber(NaN)]
    ELSE LET fuelPerKm == (fuelPerLap * 1000) \div circuitLength
         IN  [rating    |-> IF fuelPerKm < 50000 THEN "Excelente"
                            ELSE IF fuelPerKm < 70000 THEN "Buena"
                            ELSE IF fuelPerKm < 100000 THEN "Media"
                            ELSE IF fuelPerKm < 130000 THEN "Pobre"
                            ELSE "Muy Pobre",
              color     |-> IF fuelPerKm < 50000 THEN "green"
                            ELSE IF fuelPerKm < 70000 THEN "lime"
                            ELSE IF fuelPerKm < 100000 THEN "yellow"
                            ELSE IF fuelPerKm < 130000 THEN "orange"
                            ELSE "red",
              fuelPerKm |-> ToFixedFrom5(fuelPerKm, 100)]

\* totalDistance is in metres, before formatNumber rounds it to 10 m.
calculateFuel(circuit, fuelPoints) ==
    IF ~HasCircuit(circuit)
    THEN handleError("Circuito no encontrado", "Fuel calculation")
    ELSE IF fuelPoints <= 0
    THEN handleError("Puntos de combustible invalidos", "Fuel calculation")
    ELSE LET c == CatalogEntry(circuit)
         IN  IF c.laps = NaN
             THEN handleSuccess(
                      [totalFuel |-> formatNumber(NaN), fuelPerLap |-> formatNumber(NaN),
                       totalDistance |-> formatNumber(NaN),
                       efficiency |-> calculateFuelEfficiency(NaN, c.length),
                       circuitInfo |-> [name |-> c.name, laps |-> c.laps,
                                        length |-> c.length]],
                      "Operacion exitosa")
             ELSE handleSuccess(
                      [totalFuel     |-> ToFixedFrom5(FuelOver(fuelPoints, c.length * c.laps), 1000),
                       fuelPerLap    |-> ToFixedFrom5(FuelOver(fuelPoints, c.length), 100),
                       totalDistance |-> c.length * c.laps,
                       efficiency    |-> calculateFuelEfficiency(
                                             FuelOver(fuelPoints, c.length), c.length),
                       circuitInfo   |-> [name |-> c.name, laps |-> c.laps,
                                          length |-> c.length]],
                      "Operacion exitosa")

\* Config.appConfig.boostLevels: the multiplier to the fourth decimal.
boostLevels ==
    "muy-alto" :> [multiplier |-> 10400, label |-> "Muy Alto (+4%)"] @@
    "alto"     :> [multiplier |-> 10161, label |-> "Alto (+1.61%)"] @@
    "neutral"  :> [multiplier |-> 10000, label |-> "Neutral"] @@
    "bajo"     :> [multiplier |-> 9880,  label |-> "Bajo (-1.2%)"] @@
    "muy-bajo" :> [multiplier |-> 9799,  label |-> "Muy Bajo (-2.01%)"]

\* this.boostLevels[boost] || this.boostLevels['neutral'].  An inherited key
\* finds the function Object, which is truthy and has neither multiplier nor
\* label.
BoostInfo(boost) ==
    IF boost \in DOMAIN boostLevels THEN boostLevels[boost]
    ELSE IF boost \in InheritedKeys
    THEN [multiplier |-> NaN, label |-> "undefined"]
    ELSE boostLevels["neutral"]

\* The timeImpacts table of calculateBoostTimeImpact, in tenths of a second.
timeImpacts ==
    "muy-alto" :> (0 - 8) @@ "alto" :> (0 - 3) @@ "neutral" :> 0 @@
    "bajo" :> 4 @@ "muy-bajo" :> 9

\* timeImpacts[boost] || 0: an inherited key finds a function, whose product
\* with laps is NaN and which is neither < 0 nor > 0.
calculateBoostTimeImpact(boost, laps) ==
    IF boost \in InheritedKeys /\ boost \notin DOMAIN timeImpacts
    THEN [perLap |-> formatNumber(NaN), total |-> formatNumber(NaN),
          direction |-> "neutral"]
    ELSE LET impactPerLap == IF boost \in DOMAIN timeImpacts
                             THEN timeImpacts[boost] ELSE 0
         IN  [perLap    |-> impactPerLap,
              total     |-> impactPerLap * laps,
              direction |-> IF impactPerLap < 0 THEN "faster"
                            ELSE IF impactPerLap > 0 THEN "slower"
                            ELSE "neutral"]

\* x * multiplier for x held to the fifth decimal.
TimesMultiplier(x, multiplier) ==
    (x \div 10000) * multiplier + ((x % 10000) * multiplier) \div 10000

calculateStintFuel(circuit, fuelPoints, laps, boost) ==
    IF ~HasCircuit(circuit)
    THEN handleError("Circuito no encontrado", "Stint fuel calculation")
    ELSE IF fuelPoints <= 0 \/ laps <= 0
    THEN handleError("Valores invalidos", "Stint fuel calculation")
    ELSE LET c          == CatalogEntry(circuit)
             fuelPerLap == FuelOver(fuelPoints, c.length)
             boostInfo  == BoostInfo(boost)
             m          == boostInfo.multiplier
             stintFuel  == TimesMultiplier(fuelPerLap * laps, m)
             fuelSaving == TimesMultiplier(fuelPerLap * laps,
                                           IF m > 10000 THEN m - 10000
                                           ELSE 10000 - m)
         IN  handleSuccess(
                 [stintFuel      |-> IF m = NaN THEN formatNumber(NaN)
                                     ELSE ToFixedFrom5(stintFuel, 1000),
                  fuelPerLap     |-> IF m = NaN THEN formatNumber(NaN)
                                     ELSE ToFixedFrom5(TimesMultiplier(fuelPerLap, m), 100),
                  baseFuelPerLap |-> ToFixedFrom5(fuelPerLap, 100),
                  boostInfo      |-> [level |-> boost, multiplier |-> m,
                                      label |-> boostInfo.label],
                  fuelSaving     |-> IF m = NaN THEN formatNumber(NaN)
                                     ELSE ToFixedFrom5(fuelSaving, 1000),
                  timeImpact     |-> calculateBoostTimeImpact(boost, laps),
                  laps           |-> laps],
                 "Operacion exitosa")

(***************************************************************************)
(* Calculations: the strategy generator.  A strategy is [stints |-> ...];  *)
(* its totalFuel and description are derived for display and read by no    *)
(* step of the generator, the evaluator or the comparator.                 *)
(***************************************************************************)
\* The for loop of createBalancedStrategy from iteration i on.
RECURSIVE BalancedStints(_, _, _, _, _)
BalancedStints(numStints, primaryCompound, i, remainingLaps, stints) ==
    IF i >= numStints THEN stints
    ELSE LET isLastStint == i = numStints - 1
             stintLaps == IF isLastStint THEN remainingLaps
                          ELSE remainingLaps \div (numStints - i)
             compound  == IF numStints > 1
                          THEN IF i = 0 THEN "S"
                               ELSE IF i = numStints - 1 THEN "H"
                               ELSE primaryCompound
                          ELSE primaryCompound
         IN  BalancedStints(numStints, primaryCompound, i + 1,
                            remainingLaps - stintLaps,
                            Append(stints, [stint |-> i + 1,
                                            compound |-> compound,
                                            laps |-> stintLaps,
                                            boost |-> "neutral"]))

\* createBalancedStrategy without the compound variation of multi-stint plans.
createBalancedStrategy_AllPrimary(circuit, totalLaps, numStints, primaryCompound, tyrePoints, fuelPoints) ==
    LET s == BalancedStints(numStints, primaryCompound, 0, totalLaps, <<>>)
    IN  [stints |-> [j \in 1..Len(s) |-> [s[j] EXCEPT !.compound = primaryCompound]]]

\* createBalancedStrategy giving every stint but the last the same share
\* of the race, totalLaps / numStints rounded down.
createBalancedStrategy_EvenShare(circuit, totalLaps, numStints, primaryCompound, tyrePoints, fuelPoints) ==
    LET s     == BalancedStints(numStints, primaryCompound, 0, totalLaps, <<>>)
        share == totalLaps \div numStints
    IN  [stints |-> [j \in 1..Len(s) |->
                        [s[j] EXCEPT !.laps = IF j = numStints
                                              THEN totalLaps - (numStints - 1) * share
                                              ELSE share]]]

createBalancedStrategy(circuit, totalLaps, numStints, primaryCompound, tyrePoints, fuelPoints) ==
    [stints |-> BalancedStints(numStints, primaryCompound, 0, totalLaps, <<>>)]

\* stints.reduce((sum, stint) => sum + stint.laps, 0)
RECURSIVE SumLaps(_)
SumLaps(stints) ==
    IF stints = <<>> THEN 0 ELSE Head(stints).laps + SumLaps(Tail(stints))

\* validateStrategy without its every(stint => stint.laps > 0).
validateStrategy_SumOnly(strategy, totalLaps) ==
    SumLaps(strategy.stints) = totalLaps

validateStrategy(strategy, totalLaps) ==
    /\ SumLaps(strategy.stints) = totalLaps
    /\ \A i \in 1..Len(strategy.stints) : strategy.stints[i].laps > 0

\* The inner loop of generateStrategies: for (const compound of compounds).
RECURSIVE CompoundLoop(_, _, _, _, _, _, _)
CompoundLoop(circuit, totalLaps, tyrePoints, fuelPoints, numStints, compounds, strategies) ==
    IF compounds = <<>> THEN strategies
    ELSE LET strategy == createBalancedStrategy(circuit, totalLaps, numStints,
                                                Head(compounds), tyrePoints, fuelPoints)
         IN  CompoundLoop(circuit, totalLaps, tyrePoints, fuelPoints, numStints,
                          Tail(compounds),
                          IF validateStrategy(strategy, totalLaps)
                          THEN Append(strategies, strategy)
                          ELSE strategies)

\* The outer loop of generateStrategies from numStints on.
RECURSIVE StintLoop(_, _, _, _, _, _, _, _, _, _)
StintLoop(circuit, totalLaps, tyrePoints, fuelPoints, maxStints, compounds, minLength, maxLength, numStints, strategies) ==
    IF numStints > maxStints THEN strategies
    ELSE LET avgStintLength == totalLaps \div numStints
         IN  StintLoop(circuit, totalLaps, tyrePoints, fuelPoints, maxStints,
                       compounds, minLength, maxLength, numStints + 1,
                       IF avgStintLength >= minLength /\ avgStintLength <= maxLength
                       THEN CompoundLoop(circuit, totalLaps, tyrePoints, fuelPoints,
                                         numStints, compounds, strategies)
                       ELSE strategies)

\* generateStrategies with its stint loop running to maxStints - 1.
generateStrategies_StopEarly(circuit, totalLaps, tyrePoints, fuelPoints, maxStints, compounds, minLength, maxLength) ==
    StintLoop(circuit, totalLaps, tyrePoints, fuelPoints, maxStints - 1, compounds,
              minLength, maxLength, 1, <<>>)

generateStrategies(circuit, totalLaps, tyrePoints, fuelPoints, maxStints, compounds, minLength, maxLength) ==
    StintLoop(circuit, totalLaps, tyrePoints, fuelPoints, maxStints, compounds,
              minLength, maxLength, 1, <<>>)

(***************************************************************************)
(* Calculations: the strategy evaluator.                                   *)
(***************************************************************************)
\* The forEach of evaluateStrategy from stint i on.  The tyre model is asked
\* for circuitInfo.name.
RECURSIVE EvaluateStints(_, _, _, _)
EvaluateStints(stints, circuitInfo, i, score) ==
    IF i > Len(stints) THEN score
    ELSE LET stint     == stints[i]
             tyreWear  == calculateTyreWear(circuitInfo.name, stint.compound,
                                            stint.laps, 100)
             afterTyre == IF tyreWear.remaining < 2000 THEN score - 30
                          ELSE IF tyreWear.remaining < 4000 THEN score - 15
                          ELSE IF tyreWear.remaining > 8000 THEN score - 5
                          ELSE score
             afterBonus == IF stint.laps >= 8 /\ stint.laps <= 25
                           THEN afterTyre + 5 ELSE afterTyre
         IN  EvaluateStints(stints, circuitInfo, i + 1, afterBonus)

\* evaluateStrategy without the final Math.max(0, score).
evaluateStrategy_NoFloor(strategy, circuitInfo) ==
    EvaluateStints(strategy.stints, circuitInfo, 1,
                   100 - (Len(strategy.stints) - 1) * 15)

evaluateStrategy(strategy, circuitInfo) ==
    Max(0, EvaluateStints(strategy.stints, circuitInfo, 1,
                          100 - (Len(strategy.stints) - 1) * 15))

\* strategies.map(strategy => ({...strategy, score: evaluateStrategy(strategy, c)}))
MapScore(strategies, c) ==
    [i \in 1..Len(strategies) |->
        [stints |-> strategies[i].stints,
         score  |-> evaluateStrategy(strategies[i], c)]]

\* One insertion of the stable sort by (a, b) => b.score - a.score.
InsertByScore(sorted, e) ==
    LET k == Cardinality({i \in 1..Len(sorted) : sorted[i].score >= e.score})
    IN  SubSeq(sorted, 1, k) \o <<e>> \o SubSeq(sorted, k + 1, Len(sorted))

RECURSIVE SortFrom(_, _, _)
SortFrom(seq, i, sorted) ==
    IF i > Len(seq) THEN sorted
    ELSE SortFrom(seq, i + 1, InsertByScore(sorted, seq[i]))

\* The sort with its comparator reversed: (a, b) => a.score - b.score.
SortByScore_Ascending(seq) ==
    LET d == SortFrom(seq, 1, <<>>)
    IN  [i \in 1..Len(d) |-> d[Len(d) + 1 - i]]

\* Array.prototype.sort((a, b) => b.score - a.score), which is stable.
SortByScore(seq) == SortFrom(seq, 1, <<>>)

\* Array.prototype.slice(from, to) with 0-based bounds.
Slice(seq, from, to) == SubSeq(seq, from + 1, Min(to, Len(seq)))

\* The destructuring of constraints with its defaults; floor(totalLaps * 0.7)
\* is (7 * totalLaps) div 10 for every totalLaps below 90.
DestructureConstraints(constraints, totalLaps) ==
    [maxStints |->
        IF "maxStints" \in DOMAIN constraints THEN constraints.maxStints ELSE 3,
     preferredCompounds |->
        IF "preferredCompounds" \in DOMAIN constraints
        THEN constraints.preferredCompounds ELSE <<"M", "S">>,
     minStintLength |->
        IF "minStintLength" \in DOMAIN constraints
        THEN constraints.minStintLength ELSE 5,
     maxStintLength |->
        IF "maxStintLength" \in DOMAIN constraints
        THEN constraints.maxStintLength ELSE (totalLaps * 7) \div 10]

\* recommended is evaluatedStrategies[0]: a sequence of one strategy, or the
\* empty sequence where JavaScript yields undefined.
optimizeStrategy(circuit, totalLaps, tyrePoints, fuelPoints, constraints) ==
    IF ~HasCircuit(circuit)
    THEN handleError("Circuito no encontrado", "Strategy optimization")
    ELSE LET c  == CatalogEntry(circuit)
             k  == DestructureConstraints(constraints, totalLaps)
             strategies == generateStrategies(circuit, totalLaps, tyrePoints,
                               fuelPoints, k.maxStints, k.preferredCompounds,
                               k.minStintLength, k.maxStintLength)
             evaluatedStrategies ==
                 Slice(SortByScore(MapScore(strategies, c)), 0, 5)
         IN  handleSuccess(
                 [recommended  |-> Slice(evaluatedStrategies, 0, 1),
                  alternatives |-> Slice(evaluatedStrategies, 1, Len(evaluatedStrategies)),
                  circuitInfo  |-> [name |-> c.name, totalLaps |-> totalLaps,
                                    difficulty |-> c.difficulty]],
                 "Operacion exitosa")

(***************************************************************************)
(* Calculations: the strategy comparator.  totalFuel is left out.          *)
(***************************************************************************)
\* The forEach of analyzeStrategy from stint i on: [totalTime, riskLevel].
RECURSIVE AnalyzeStints(_, _, _, _)
AnalyzeStints(stints, circuit, i, acc) ==
    IF i > Len(stints) THEN acc
    ELSE LET stint    == stints[i]
             tyreCalc == calculateTyreWear(circuit, stint.compound, stint.laps, 100)
             time     == acc.totalTime + stint.laps * 90
                         + (IF i - 1 < Len(stints) - 1 THEN 25 ELSE 0)
             risk     == IF Less(tyreCalc.remaining, 3000) THEN acc.riskLevel + 2
                         ELSE IF Less(tyreCalc.remaining, 5000) THEN acc.riskLevel + 1
                         ELSE acc.riskLevel
         IN  AnalyzeStints(stints, circuit, i + 1,
                           [totalTime |-> time, riskLevel |-> risk])

\* analyzeStrategy with the second risk test not chained by else.
analyzeStrategy_NoElse(strategy, circuit) ==
    LET acc == AnalyzeStints(strategy.stints, circuit, 1,
                             [totalTime |-> 0, riskLevel |-> 0])
        low == {i \in 1..Len(strategy.stints) :
                   Less(calculateTyreWear(circuit, strategy.stints[i].compound,
                                          strategy.stints[i].laps, 100).remaining,
                        3000)}
    IN  [estimatedTime |-> acc.totalTime,
         riskLevel     |-> acc.riskLevel + Cardinality(low),
         pitStops      |-> Len(strategy.stints) - 1]

\* analyzeStrategy charging a pit stop after every stint, the last included.
analyzeStrategy_PitEveryStint(strategy, circuit) ==
    LET acc == AnalyzeStints(strategy.stints, circuit, 1,
                             [totalTime |-> 0, riskLevel |-> 0])
    IN  [estimatedTime |-> acc.totalTime + 25,
         riskLevel     |-> acc.riskLevel,
         pitStops      |-> Len(strategy.stints) - 1]

analyzeStrategy(strategy, circuit) ==
    LET acc == AnalyzeStints(strategy.stints, circuit, 1,
                             [totalTime |-> 0, riskLevel |-> 0])
    IN  [estimatedTime |-> acc.totalTime,
         riskLevel     |-> acc.riskLevel,
         pitStops      |-> Len(strategy.stints) - 1]

(***************************************************************************)
(* The calculator as a state machine: `call` is the call made on the       *)
(* Calculations instance with its arguments, `ret` what it returned.  The  *)
(* instance keeps nothing between calls (its constructor only reads the    *)
(* configuration), so every call starts from the state after construction. *)
(***************************************************************************)
VARIABLES call, ret

calcVars == <<call, ret>>

(***************************************************************************)
(* The state of a page holding one Auth instance.  Time is counted in      *)
(* ticks of five minutes, the largest unit that divides the limiter's      *)
(* fifteen minutes and the session's twenty-four hours.                    *)
(*   now         Date.now()                                                *)
(*   users       the users node of the remote store                        *)
(*   attempts    the Map of the rate limiter, identifier -> record         *)
(*   currentUser this.currentUser: <<>> for null, else <<object>>          *)
(*   session     localStorage['ferrari_session']: <<>> when absent         *)
(*   pending     the loginWithRateLimit calls waiting on `await login`     *)
(* and two history variables that no step reads back:                      *)
(*   failureLog  per identifier, the times of its last failures recorded   *)
(*               since its last successful login                           *)
(*   loggedIn    the latest successful login of this instance not yet      *)
(*               followed by logout()                                      *)
(***************************************************************************)
VARIABLES now, users, attempts, currentUser, session, pending,
          failureLog, loggedIn

authVars == <<now, users, attempts, currentUser, session, pending,
              failureLog, loggedIn>>

(***************************************************************************)
(* FerrariApp: the strategy planner.                                       *)
(*   strategy  this.state.strategy                                         *)
(*   dom       the number of stint cards the last render() drew: the       *)
(*             buttons and inputs a user can act on are those of that      *)
(*             render                                                      *)
(*   awaiting  the optimizeStrategy() calls suspended at                   *)
(*             await this.saveStrategy()                                   *)
(*   saved     what the database holds under strategies/<username>         *)
(*   events    the UI events handled so far                                *)
(***************************************************************************)
VARIABLES strategy, dom, awaiting, saved, events

plannerVars == <<strategy, dom, awaiting, saved, events>>

(***************************************************************************)
(* The login form of the page and the UI instance that watches it.         *)
(*   button        the submit button of the form: its text and its         *)
(*                 disabled property                                       *)
(*   loadingStates what UI.loadingStates holds under the button's id:      *)
(*                 <<>> when it holds nothing                              *)
(*   handler       where FerrariApp.handleLogin stands: "none" when no     *)
(*                 call of it is suspended, "limited" or "login" when it   *)
(*                 waits on loginWithRateLimit, which either has answered  *)
(*                 with the rate-limit error or waits on login()           *)
(*   bubbling      a submit event has left the form's listener and has     *)
(*                 yet to reach the document's                             *)
(*   timers        the fallback timers of handleFormSubmit yet to fire     *)
(*   attached      the form is still the one in the document               *)
(***************************************************************************)
VARIABLES button, loadingStates, handler, bubbling, timers, attached

formVars == <<button, loadingStates, handler, bubbling, timers, attached>>

(***************************************************************************)
(* The pages that share the remote store, each with its own Database and   *)
(* Auth instance.  The users node of the store is the variable users.      *)
(*   cache       per page, the Map Database.cache: path -> entry; an entry *)
(*               also records, for the checks only, how many writes the    *)
(*               store had seen when its data was read                     *)
(*   registering the Auth.register calls waiting on getUsers or createUser *)
(*   operations  the Database.executeOperation calls waiting on Firebase   *)
(*   reply       what the last call that returned has returned             *)
(*   writes      the number of writes the store has performed              *)
(*   completed   per path, the number writes stood at after the latest     *)
(*               write to the path, an ancestor or a descendant that       *)
(*               executeOperation has completed on the first page          *)
(*   started     the calls made so far                                     *)
(***************************************************************************)
VARIABLES cache, registering, operations, reply, writes, completed, started

storeVars == <<cache, registering, operations, reply, writes, completed,
               started>>

(***************************************************************************)
(* The chat of the page.                                                   *)
(*   messages       the messages node of the store, in timestamp order; a  *)
(*                  message also records, for the checks only, the text    *)
(*                  that was typed                                         *)
(*   stateMessages  FerrariApp.state.messages                              *)
(*   markup         per message of the rendered chat section, the user     *)
(*                  name and the text as they stand in the markup          *)
(***************************************************************************)
VARIABLES messages, stateMessages, markup

chatVars == <<messages, stateMessages, markup>>

pageVars == <<formVars, storeVars, chatVars>>

vars == <<call, ret, now, users, attempts, currentUser, session, pending,
          failureLog, loggedIn, strategy, dom, awaiting, saved, events,
          instance, history, pageVars>>

\* A circuit code that is not a key of the catalog.
UnknownCircuit == "XXX"

CircuitInputs == DOMAIN circuitsData \cup {UnknownCircuit} \cup InheritedKeys

CompoundLists == {<<"M", "S">>, <<"M", "S", "H">>, <<"SS">>, <<>>}

MinLengths == {0, 1, 5}

MaxLengths(totalLaps) == {(totalLaps * 7) \div 10, 16, totalLaps}

PointInputs == {49, 100}

\* The constraints objects passed to optimizeStrategy: the defaults but for
\* one field, the object FerrariApp.optimizeStrategy builds, many short
\* stints, and no compound at all.
ConstraintInputs(totalLaps) ==
    { [maxStints |-> 3],
      [maxStints |-> 3, preferredCompounds |-> <<"M", "S", "H">>,
       minStintLength |-> 5, maxStintLength |-> (totalLaps * 7) \div 10],
      [maxStints |-> MaxStintsBound, minStintLength |-> 1],
      [preferredCompounds |-> <<>>] }

\* The strategies handed to analyzeStrategy.
AnalysisStrategies ==
    UNION { LET g == generateStrategies(UnknownCircuit, n, 100, 100, 3,
                                        <<"M", "SS">>, 1, n)
            IN  {g[i] : i \in 1..Len(g)} : n \in 0..MaxLaps }

\* The candidates handed to evaluateStrategy.
EvaluationStrategies ==
    UNION { LET g == generateStrategies(UnknownCircuit, n, 100, 100,
                                        MaxStintsBound, <<"M">>, 1, n)
            IN  {g[i] : i \in 1..Len(g)} : n \in 0..MaxLaps }

InitCalc ==
    /\ call = [op |-> "none"]
    /\ ret = <<>>

GenerateStrategies ==
    /\ call.op = "none"
    /\ \E totalLaps \in 0..MaxLaps, maxStints \in 1..MaxStintsBound,
       compounds \in CompoundLists, minLength \in MinLengths :
      \E maxLength \in MaxLengths(totalLaps) :
        /\ call' = [op |-> "generateStrategies", totalLaps |-> totalLaps,
                    maxStints |-> maxStints, compounds |-> compounds,
                    minLength |-> minLength, maxLength |-> maxLength]
        /\ ret' = generateStrategies("FRA", totalLaps, 100, 100, maxStints,
                                     compounds, minLength, maxLength)
    /\ UNCHANGED <<authVars, plannerVars, repeatVars, pageVars>>

OptimizeStrategy ==
    /\ call.op = "none"
    /\ \E circuit \in CircuitInputs, totalLaps \in 0..MaxLaps,
       tyrePoints \in PointInputs :
      \E constraints \in ConstraintInputs(totalLaps) :
        /\ call' = [op |-> "optimizeStrategy", circuit |-> circuit,
                    totalLaps |-> totalLaps, tyrePoints |-> tyrePoints,
                    fuelPoints |-> 100, constraints |-> constraints]
        /\ ret' = optimizeStrategy(circuit, totalLaps, tyrePoints, 100, constraints)
    /\ UNCHANGED <<authVars, plannerVars, repeatVars, pageVars>>

AnalyzeStrategy ==
    /\ call.op = "none"
    /\ \E circuit \in CircuitInputs, plan \in AnalysisStrategies :
        /\ call' = [op |-> "analyzeStrategy", circuit |-> circuit,
                    strategy |-> plan]
        /\ ret' = analyzeStrategy(plan, circuit)
    /\ UNCHANGED <<authVars, plannerVars, repeatVars, pageVars>>

\* evaluateStrategy(strategy, c) as optimizeStrategy calls it for the circuit
\* code `circuit`: c is this.circuitsData[circuit].
EvaluateStrategy ==
    /\ call.op = "none"
    /\ \E circuit \in DOMAIN circuitsData, plan \in EvaluationStrategies :
        /\ call' = [op |-> "evaluateStrategy", circuit |-> circuit,
                    strategy |-> plan]
        /\ ret' = evaluateStrategy(plan, circuitsData[circuit])
    /\ UNCHANGED <<authVars, plannerVars, repeatVars, pageVars>>

\* The compound, point and boost arguments of the direct calculator calls:
\* catalog keys in both cases, unknown keys, and numbers on both sides of 0.
CompoundInputs == {"SS", "S", "M", "H", "m", "X"}

NumericInputs == {0 - 5, 0} \cup TyrePointsSet

\* The lap counts: around 0, a race distance, and a run long enough to wear
\* out the Hard compound.
LapInputs == ((0 - 1)..MaxLaps) \cup {200}

UnknownBoost == "turbo"

BoostInputs == DOMAIN boostLevels \cup {UnknownBoost} \cup InheritedKeys

CalculateTyreWear ==
    /\ call.op = "none"
    /\ \E circuit \in CircuitInputs, compound \in CompoundInputs,
          laps \in LapInputs, tyrePoints \in NumericInputs :
        /\ call' = [op |-> "calculateTyreWear", circuit |-> circuit,
                    compound |-> compound, laps |-> laps,
                    tyrePoints |-> tyrePoints]
        /\ ret' = calculateTyreWear(circuit, compound, laps, tyrePoints)
    /\ UNCHANGED <<authVars, plannerVars, repeatVars, pageVars>>

CalculateFuel ==
    /\ call.op = "none"
    /\ \E circuit \in CircuitInputs, fuelPoints \in NumericInputs :
        /\ call' = [op |-> "calculateFuel", circuit |-> circuit,
                    fuelPoints |-> fuelPoints]
        /\ ret' = calculateFuel(circuit, fuelPoints)
    /\ UNCHANGED <<authVars, plannerVars, repeatVars, pageVars>>

CalculateStintFuel ==
    /\ call.op = "none"
    /\ \E circuit \in CircuitInputs, fuelPoints \in NumericInputs,
          laps \in LapInputs, boost \in BoostInputs :
        /\ call' = [op |-> "calculateStintFuel", circuit |-> circuit,
                    fuelPoints |-> fuelPoints, laps |-> laps, boost |-> boost]
        /\ ret' = calculateStintFuel(circuit, fuelPoints, laps, boost)
    /\ UNCHANGED <<authVars, plannerVars, repeatVars, pageVars>>

NextCalc ==
    \/ GenerateStrategies
    \/ OptimizeStrategy
    \/ EvaluateStrategy
    \/ AnalyzeStrategy
    \/ CalculateTyreWear
    \/ CalculateFuel
    \/ CalculateStintFuel

(***************************************************************************)
(* Utils: the string helpers the Auth module calls.  A string is the       *)
(* sequence of its characters.                                             *)
(***************************************************************************)
\* The replacement Utils.sanitizeInput makes for one character.
EscapeChar(c) ==
    CASE c = "&"  -> <<"&", "a", "m", "p", ";">>
      [] c = "<"  -> <<"&", "l", "t", ";">>
      [] c = ">"  -> <<"&", "g", "t", ";">>
      [] c = "\"" -> <<"&", "q", "u", "o", "t", ";">>
      [] c = "'"  -> <<"&", "#", "x", "2", "7", ";">>
      [] c = "/"  -> <<"&", "#", "x", "2", "F", ";">>
      [] OTHER    -> <<c>>

RECURSIVE sanitizeInput(_)
sanitizeInput(input) ==
    IF input = <<>> THEN <<>>
    ELSE EscapeChar(Head(input)) \o sanitizeInput(Tail(input))

\* String.prototype.trim for the one white-space character of the inputs.
RECURSIVE TrimStart(_)
TrimStart(str) ==
    IF str # <<>> /\ Head(str) = " " THEN TrimStart(Tail(str)) ELSE str

RECURSIVE TrimEnd(_)
TrimEnd(str) ==
    IF str # <<>> /\ str[Len(str)] = " "
    THEN TrimEnd(SubSeq(str, 1, Len(str) - 1))
    ELSE str

Trim(str) == TrimEnd(TrimStart(str))

\* The characters of the class [a-zA-Z0-9_].
WordChars ==
    { "a", "b", "c", "d", "e", "f", "g", "h", "i", "j", "k", "l", "m",
      "n", "o", "p", "q", "r", "s", "t", "u", "v", "w", "x", "y", "z",
      "A", "B", "C", "D", "E", "F", "G", "H", "I", "J", "K", "L", "M",
      "N", "O", "P", "Q", "R", "S", "T", "U", "V", "W", "X", "Y", "Z",
      "0", "1", "2", "3", "4", "5", "6", "7", "8", "9", "_" }

\* Utils.validateUsername: <<>> when valid, else the first error.
validateUsername(username) ==
    IF username = <<>> \/ Trim(username) = <<>>
    THEN <<"El nombre de usuario es requerido">>
    ELSE IF Len(username) < 3
    THEN <<"El nombre de usuario debe tener al menos 3 caracteres">>
    ELSE IF Len(username) > 20
    THEN <<"El nombre de usuario no puede tener mas de 20 caracteres">>
    ELSE IF \E i \in 1..Len(username) : username[i] \notin WordChars
    THEN <<"El nombre de usuario solo puede contener letras, numeros y guiones bajos">>
    ELSE <<>>

\* Utils.validatePassword: <<>> when valid, else the first error.
validatePassword(password) ==
    IF Len(password) < 6
    THEN <<"La contrasena debe tener al menos 6 caracteres">>
    ELSE <<>>

(***************************************************************************)
(* Auth.                                                                   *)
(***************************************************************************)
\* The account Database.initializeDefaultData creates, and its password.
AdminName == <<"a", "d", "m", "i", "n", "_", "i", "g", "p">>

AdminPassword == <<"K", "i", "r", "i", "t", "o", "4", "9">>

\* A password of valid length that is not the account's.
OtherPassword == <<"F", "e", "r", "r", "a", "r", "i", "1">>

\* The string hashPassword returns for the account's password, typed as a
\* password.
HashAsPassword == <<"h", "i", "l", "d", "o", "9">>

\* Auth.hashPassword on the passwords above: the base-36 digits the two
\* 32-bit rolling hashes and the salt 'ferrari_salt_' + length yield for
\* them.
hashPassword(password) ==
    CASE password = AdminPassword  -> <<"h", "i", "l", "d", "o", "9">>
      [] password = OtherPassword  -> <<"l", "i", "5", "p", "3", "g">>
      [] password = HashAsPassword -> <<"4", "9", "o", "a", "s", "7">>

\* sessionTimeout and lockoutTime in ticks of five minutes.
sessionTimeout == (24 * 60) \div 5

lockoutTime == 15 \div 5

maxAttempts == 5

\* The identifier of a call whose sanitized username is empty.
UnknownIdentifier == <<"u", "n", "k", "n", "o", "w", "n">>

validateLogin(username, password) ==
    IF username = <<>> \/ password = <<>>
    THEN handleError("Usuario y contrasena son requeridos", "Login validation")
    ELSE LET sanitizedUsername == sanitizeInput(Trim(username))
         IN  IF validateUsername(sanitizedUsername) # <<>>
             THEN handleError(validateUsername(sanitizedUsername)[1],
                              "Username validation")
             ELSE IF validatePassword(password) # <<>>
             THEN handleError(validatePassword(password)[1],
                              "Password validation")
             ELSE handleSuccess([username |-> sanitizedUsername,
                                 password |-> password], "Operacion exitosa")

\* Auth.saveSession: what it stores under 'ferrari_session'.
saveSession(userData) ==
    [username  |-> userData.username,
     isAdmin   |-> userData.isAdmin,
     loginTime |-> userData.loginTime,
     expiresAt |-> now + sessionTimeout]

\* Auth.login: its result and what it leaves in the store, in
\* this.currentUser and in localStorage.  The object it assigns to
\* this.currentUser is userData, which has no expiresAt.
login(username, password) ==
    LET validation == validateLogin(username, password)
        unchanged(result) ==
            [result |-> result, users |-> users,
             currentUser |-> currentUser, session |-> session]
    IN  IF ~validation.success THEN unchanged(validation)
        ELSE IF validation.data.username \notin DOMAIN users
        THEN unchanged(handleError("Usuario no encontrado", "Login"))
        ELSE LET name           == validation.data.username
                 user           == users[name]
                 hashedPassword == hashPassword(password)
                 storedPassword == user.password
                 userData       == [username  |-> name,
                                    isAdmin   |-> user.isAdmin = TRUE,
                                    loginTime |-> now]
             IN  IF ~(storedPassword = hashedPassword \/ storedPassword = password)
                 THEN unchanged(handleError("Contrasena incorrecta", "Login"))
                 ELSE [result      |-> handleSuccess(userData, "Login exitoso"),
                       users       |-> IF storedPassword = password
                                       THEN [users EXCEPT ![name].password =
                                                              hashedPassword]
                                       ELSE users,
                       currentUser |-> <<userData>>,
                       session     |-> <<saveSession(userData)>>]

\* Date.now() < this.currentUser.expiresAt: a comparison with undefined is
\* false.
isSessionValid ==
    /\ currentUser # <<>>
    /\ "expiresAt" \in DOMAIN currentUser[1]
    /\ now < currentUser[1].expiresAt

isAuthenticated == currentUser # <<>> /\ isSessionValid

isAdmin == isAuthenticated /\ currentUser[1].isAdmin = TRUE

getCurrentUser == currentUser

isSessionDataValid(sessionData) ==
    /\ sessionData.username # <<>>
    /\ sessionData.expiresAt # 0
    /\ now < sessionData.expiresAt

\* The record rateLimit.check and rateLimit.record work on.
AttemptRecord(identifier) ==
    IF identifier \in DOMAIN attempts THEN attempts[identifier]
    ELSE [count |-> 0, firstAttempt |-> now, lockedUntil |-> 0]

\* rateLimit.check without its restart of a window that is over.
check_NoRestart(identifier) ==
    LET record == AttemptRecord(identifier)
    IN  IF record.lockedUntil > now
        THEN [allowed |-> FALSE, remainingTime |-> (record.lockedUntil - now) * 5,
              attempts |-> attempts]
        ELSE [allowed |-> record.count < maxAttempts, remainingTime |-> 0,
              attempts |-> attempts]

\* rateLimit.check: its answer and the Map after it.  The record it resets
\* is the object the Map holds, when the Map holds one.
check(identifier) ==
    LET record == AttemptRecord(identifier)
        reset  == [record EXCEPT !.count = 0, !.firstAttempt = now]
    IN  IF record.lockedUntil > now
        THEN [allowed |-> FALSE, remainingTime |-> (record.lockedUntil - now) * 5,
              attempts |-> attempts]
        ELSE IF now - record.firstAttempt > lockoutTime
        THEN [allowed |-> reset.count < maxAttempts, remainingTime |-> 0,
              attempts |-> IF identifier \in DOMAIN attempts
                           THEN [attempts EXCEPT ![identifier] = reset]
                           ELSE attempts]
        ELSE [allowed |-> record.count < maxAttempts, remainingTime |-> 0,
              attempts |-> attempts]

\* rateLimit.record: the Map after it.
record(identifier) ==
    LET old     == AttemptRecord(identifier)
        counted == [old EXCEPT !.count = old.count + 1]
        locked  == IF counted.count >= maxAttempts
                   THEN [counted EXCEPT !.lockedUntil = now + lockoutTime]
                   ELSE counted
    IN  (identifier :> locked) @@ attempts

\* rateLimit.reset: the Map after it.
reset(identifier) ==
    [i \in DOMAIN attempts \ {identifier} |-> attempts[i]]

(***************************************************************************)
(* The page as a state machine.                                            *)
(***************************************************************************)
\* The username typed into the login form: the account's.
UsernameInputs == { AdminName }

\* The account's name as it may also be typed: with a space before it.
PaddedName == <<" ">> \o AdminName

SpelledUsernames == { AdminName, PaddedName }

PasswordInputs == { AdminPassword, OtherPassword }

Identifier(username) ==
    IF sanitizeInput(username) = <<>> THEN UnknownIdentifier
    ELSE sanitizeInput(username)

Identifiers == { Identifier(u) : u \in UsernameInputs \cup SpelledUsernames }

InitAuth ==
    /\ now = 0
    /\ users = (AdminName :> [password |-> AdminPassword, isAdmin |-> TRUE])
    /\ attempts = <<>>
    /\ currentUser = <<>>
    /\ session = <<>>
    /\ pending = <<>>
    /\ failureLog = [i \in Identifiers |-> <<>>]
    /\ loggedIn = <<>>

\* FerrariApp.constructor: the default strategy, drawn once.
InitPlanner ==
    /\ strategy = [circuit |-> "FRA", tyrePoints |-> 49, fuelPoints |-> 100,
                   stints |-> <<[compound |-> "M", laps |-> 6,
                                 boost |-> "neutral"]>>]
    /\ dom = 1
    /\ awaiting = 0
    /\ saved = <<>>
    /\ events = 0

\* Calculations.constructor.
InitRepeat ==
    /\ instance = [circuitsData |-> circuitsData, boostLevels |-> boostLevels]
    /\ history = <<>>

(***************************************************************************)
(* Database: the cache in front of the remote store, and Auth.register on  *)
(* top of it.  A path is the sequence of its characters.  A value read or  *)
(* cached is <<>> for null and <<v>> for the value v.                      *)
(***************************************************************************)
\* The pages open on the store.
Clients == {1, 2}

\* The calls a behaviour makes.
MaxStarted == 3

\* this.cacheTimeout, in ticks of five minutes.
cacheTimeout == 5 \div 5

UsersPath == <<"u", "s", "e", "r", "s">>

UserPath(name) == UsersPath \o <<"/">> \o name

\* A name no account has at first.
NewName == <<"a", "n", "n">>

StorePaths == { UsersPath, UserPath(NewName) }

\* String.prototype.startsWith.
StartsWith(str, prefix) ==
    Len(prefix) <= Len(str) /\ SubSeq(str, 1, Len(prefix)) = prefix

\* snapshot.val() of firebase.get on a path: an empty node reads as null.
ValueAt(path) ==
    IF path = UsersPath
    THEN IF DOMAIN users = {} THEN <<>> ELSE <<users>>
    ELSE IF \E n \in DOMAIN users : path = UserPath(n)
    THEN <<users[CHOOSE n \in DOMAIN users : path = UserPath(n)]>>
    ELSE <<>>

\* Database.getFromCache on the cache of page c.
getFromCache(c, path) ==
    IF path \in DOMAIN cache[c]
       /\ now - cache[c][path].timestamp < cacheTimeout
    THEN cache[c][path].data
    ELSE <<>>

\* Database.setCache: the caches after it.
setCache(c, path, data, readAt) ==
    [cache EXCEPT ![c] = (path :> [data      |-> data,
                                   timestamp |-> now,
                                   readAt    |-> readAt]) @@ @]

\* Database.invalidateCache: the caches after it.
invalidateCache(c, path) ==
    [cache EXCEPT ![c] =
        [key \in { k \in DOMAIN @ : ~(StartsWith(k, path) \/ StartsWith(path, k)) }
            |-> @[key]]]

\* The path Q is the path P, an ancestor of it or a descendant of it.
Related(q, p) ==
    \/ q = p
    \/ StartsWith(p, q \o <<"/">>)
    \/ StartsWith(q, p \o <<"/">>)

\* The records written under users/<name>.
WriteData ==
    { [password |-> hashPassword(AdminPassword), isAdmin |-> FALSE],
      [password |-> hashPassword(OtherPassword), isAdmin |-> FALSE] }

\* What is typed into the registration form.
RegisterNames == { NewName, AdminName }

RegisterPasswords == { AdminPassword, OtherPassword }

\* Auth.register up to its call of getUsers.
validateRegistration(username, password, confirmPassword) ==
    IF username = <<>> \/ password = <<>> \/ confirmPassword = <<>>
    THEN handleError("Todos los campos son requeridos", "Registration")
    ELSE IF password # confirmPassword
    THEN handleError("Las contrasenas no coinciden", "Registration")
    ELSE LET sanitizedUsername == sanitizeInput(Trim(username))
         IN  IF validateUsername(sanitizedUsername) # <<>>
             THEN handleError(validateUsername(sanitizedUsername)[1],
                              "Registration")
             ELSE IF validatePassword(password) # <<>>
             THEN handleError(validatePassword(password)[1], "Registration")
             ELSE handleSuccess([username |-> sanitizedUsername,
                                 password |-> password], "Operacion exitosa")

\* What a call puts in reply when it returns.
Reply(op, result, readAt, needed) ==
    <<[op |-> op, result |-> result, readAt |-> readAt, needed |-> needed]>>

\* register with the users object getUsers has returned: the test for an
\* existing account, and the call of createUser.
RegisterWith(c, name, password, view, rest) ==
    IF name \in DOMAIN view
    THEN /\ reply' = Reply("register",
                           handleError("El usuario ya existe", "Registration"),
                           0, 0)
         /\ registering' = rest
    ELSE /\ registering' = Append(rest, [client   |-> c,
                                         username |-> name,
                                         password |-> password,
                                         stage    |-> "createUser"])
         /\ reply' = reply

\* All of a sequence but its k-th element.
Without(seq, k) == SubSeq(seq, 1, k - 1) \o SubSeq(seq, k + 1, Len(seq))

\* getUsers: result.data || {}.
UsersOf(data) == IF data = <<>> THEN <<>> ELSE data[1]

InitStore ==
    /\ cache = [c \in Clients |-> <<>>]
    /\ registering = <<>>
    /\ operations = <<>>
    /\ reply = <<>>
    /\ writes = 0
    /\ completed = [path \in StorePaths |-> 0]
    /\ started = 0

\* The text of the button as renderLoginForm writes it, and the two texts
\* setLoadingState is given.
OriginalLabel == "ENTRAR"

LoginLoadingText == "Iniciando sesion..."

DefaultLoadingText == "Cargando..."

\* The login form as renderLoginForm draws it, and a UI just constructed.
InitForm ==
    /\ button = [text |-> OriginalLabel, disabled |-> FALSE]
    /\ loadingStates = <<>>
    /\ handler = "none"
    /\ bubbling = FALSE
    /\ timers = 0
    /\ attached = TRUE

InitChat ==
    /\ messages = <<>>
    /\ stateMessages = <<>>
    /\ markup = <<>>

InitPage == InitForm /\ InitStore /\ InitChat

Init == InitCalc /\ InitAuth /\ InitPlanner /\ InitRepeat /\ InitPage

\* Five minutes pass.
Tick ==
    /\ now < MaxTime
    /\ now' = now + 1
    /\ UNCHANGED <<users, attempts, currentUser, session, pending,
                   failureLog, loggedIn>>
    /\ UNCHANGED <<calcVars, plannerVars, repeatVars, pageVars>>

\* A day passes with the page left open and no call waiting.
Sleep ==
    /\ now < MaxTime
    /\ pending = <<>>
    /\ now' = now + sessionTimeout
    /\ UNCHANGED <<users, attempts, currentUser, session, pending,
                   failureLog, loggedIn>>
    /\ UNCHANGED <<calcVars, plannerVars, repeatVars, pageVars>>

\* loginWithRateLimit(username, password) up to its await: the check, and
\* either the rate-limit error or the call of login().
StartLogin ==
    /\ Len(pending) < MaxPending
    /\ \E username \in UsernameInputs, password \in PasswordInputs :
         LET identifier     == Identifier(username)
             rateLimitCheck == check(identifier)
         IN  /\ attempts' = rateLimitCheck.attempts
             /\ pending' = IF rateLimitCheck.allowed
                           THEN Append(pending, [identifier |-> identifier,
                                                 username   |-> username,
                                                 password   |-> password])
                           ELSE pending
    /\ UNCHANGED <<now, users, currentUser, session, failureLog, loggedIn>>
    /\ UNCHANGED <<calcVars, plannerVars, repeatVars, pageVars>>

\* The last n elements of a sequence.
LastN(seq, n) ==
    IF Len(seq) <= n THEN seq ELSE SubSeq(seq, Len(seq) - n + 1, Len(seq))

\* loginWithRateLimit from its await on: login() has run, and its failure is
\* recorded or its success resets the limiter.
ResolveLogin ==
    \E k \in 1..Len(pending) :
        LET c           == pending[k]
            loginResult == login(c.username, c.password)
        IN  /\ pending' = SubSeq(pending, 1, k - 1)
                              \o SubSeq(pending, k + 1, Len(pending))
            /\ users' = loginResult.users
            /\ currentUser' = loginResult.currentUser
            /\ session' = loginResult.session
            /\ attempts' = IF loginResult.result.success
                           THEN reset(c.identifier)
                           ELSE record(c.identifier)
            /\ failureLog' =
                   [failureLog EXCEPT ![c.identifier] =
                       IF loginResult.result.success THEN <<>>
                       ELSE LastN(Append(@, now), maxAttempts)]
            /\ loggedIn' = IF loginResult.result.success
                           THEN << [username |-> loginResult.result.data.username,
                                    at       |-> now] >>
                           ELSE loggedIn
            /\ UNCHANGED now
            /\ UNCHANGED <<calcVars, plannerVars, repeatVars, pageVars>>

\* logout() without its clearSession().
Logout_KeepSession ==
    /\ currentUser' = <<>>
    /\ loggedIn' = <<>>
    /\ UNCHANGED <<now, users, attempts, pending, failureLog, session>>
    /\ UNCHANGED <<calcVars, plannerVars, repeatVars, pageVars>>

\* Auth.logout().
Logout ==
    /\ currentUser' = <<>>
    /\ session' = <<>>
    /\ loggedIn' = <<>>
    /\ UNCHANGED <<now, users, attempts, pending, failureLog>>
    /\ UNCHANGED <<calcVars, plannerVars, repeatVars, pageVars>>

\* The page is loaded again: a new Auth, whose constructor runs loadSession
\* and whose rate limiter starts with an empty Map; the calls of the old
\* page are gone.
Reload ==
    /\ IF session # <<>> /\ isSessionDataValid(session[1])
       THEN currentUser' = session /\ session' = session
       ELSE currentUser' = <<>> /\ session' = <<>>
    /\ attempts' = <<>>
    /\ pending' = <<>>
    /\ failureLog' = [i \in Identifiers |-> <<>>]
    /\ loggedIn' = <<>>
    /\ UNCHANGED <<now, users>>
    /\ UNCHANGED <<calcVars, plannerVars, repeatVars, pageVars>>

NextAuth ==
    \/ Tick
    \/ Sleep
    \/ StartLogin
    \/ ResolveLogin
    \/ Logout
    \/ Reload

(***************************************************************************)
(* FerrariApp: the handlers attachStrategyEventListeners binds to the      *)
(* elements of the last render, and optimizeStrategy.  A handler that      *)
(* changes the strategy calls saveStrategy() without awaiting it and then  *)
(* render(), so the elements are those of the current strategy; only       *)
(* optimizeStrategy awaits the save between its assignment and its render. *)
(***************************************************************************)
\* The UI events a behaviour handles.
MaxEvents == 4

Digits == <<"0", "1", "2", "3", "4", "5", "6", "7", "8", "9">>

IsDigit(c) == \E d \in 1..10 : Digits[d] = c

DigitValue(c) == (CHOOSE d \in 1..10 : Digits[d] = c) - 1

RECURSIVE ParseDigits(_, _)
ParseDigits(str, acc) ==
    IF str # <<>> /\ IsDigit(Head(str))
    THEN ParseDigits(Tail(str), 10 * acc + DigitValue(Head(str)))
    ELSE acc

\* parseInt of a text in base ten: <<n>>, or <<>> for NaN.  Leading white
\* space and a sign are skipped, and the digits end at the first other
\* character.
parseInt(text) ==
    LET str      == TrimStart(text)
        negative == str # <<>> /\ Head(str) = "-"
        body     == IF str # <<>> /\ Head(str) \in {"-", "+"}
                    THEN Tail(str) ELSE str
    IN  IF body = <<>> \/ ~IsDigit(Head(body)) THEN <<>>
        ELSE <<IF negative THEN 0 - ParseDigits(body, 0)
               ELSE ParseDigits(body, 0)>>

\* parseInt(x) || fallback: NaN and 0 are falsy.
OrElse(parsed, fallback) ==
    IF parsed = <<>> \/ parsed[1] = 0 THEN fallback ELSE parsed[1]

\* What a user types into the number inputs.
StintCountTexts ==
    { <<>>, <<"0">>, <<"3">>, <<"9">>, <<"2", ".", "5">>, <<"-", "1">> }

LapsTexts == { <<>>, <<"-", "3">>, <<"2", ".", "5">>, <<" ", "1", "2">>, <<"x">> }

PointTexts == { <<>>, <<"4", "9">> }

\* The options of the circuit select, the compound buttons and the boost
\* select drawn here.
CircuitOptions == {"FRA", "MON"}

CompoundButtons == {"SS", "M"}

BoostOptions == {"alto", "neutral"}

\* The stint a new card starts with.
NewStint == [compound |-> "M", laps |-> 10, boost |-> "neutral"]

\* The two while loops of the stintsInput handler.
Resize(stints, newLength) ==
    IF Len(stints) >= newLength THEN SubSeq(stints, 1, newLength)
    ELSE stints \o [i \in 1..(newLength - Len(stints)) |-> NewStint]

\* Array.prototype.splice(index, 1).
Splice(stints, index) ==
    IF index < Len(stints)
    THEN SubSeq(stints, 1, index) \o SubSeq(stints, index + 2, Len(stints))
    ELSE stints

\* renderStints draws a remove button on every card.
RemoveButtons_Always(n) == 0..(n - 1)

\* The indices of the remove buttons renderStints draws for n stints.
RemoveButtons(n) == IF n > 1 THEN 0..(n - 1) ELSE {}

\* Database.saveStrategy as FerrariApp.saveStrategy calls it: what the
\* database holds afterwards.  sanitizeInput leaves circuit codes, compound
\* keys and boost keys as they are: none holds a character it escapes.
saveStrategy(strategyData) ==
    IF ~isAuthenticated THEN saved
    ELSE <<[circuit    |-> strategyData.circuit,
            tyrePoints |-> OrElse(<<strategyData.tyrePoints>>, 100),
            fuelPoints |-> OrElse(<<strategyData.fuelPoints>>, 100),
            stints     |-> [i \in 1..Len(strategyData.stints) |->
                               [compound |-> strategyData.stints[i].compound,
                                laps     |-> OrElse(<<strategyData.stints[i].laps>>, 1),
                                boost    |-> strategyData.stints[i].boost]],
            updatedAt  |-> now]>>

\* The end of a handler: the strategy assigned, saveStrategy() and render().
Handled(newStrategy) ==
    /\ strategy' = newStrategy
    /\ saved' = saveStrategy(newStrategy)
    /\ dom' = Len(newStrategy.stints)
    /\ events' = events + 1
    /\ UNCHANGED awaiting

\* A handler that throws on this.state.strategy.stints[index], the card of a
\* render older than the strategy.
Thrown ==
    /\ events' = events + 1
    /\ UNCHANGED <<strategy, saved, dom, awaiting>>

ChangeCircuit ==
    /\ events < MaxEvents
    /\ \E value \in CircuitOptions :
        Handled([strategy EXCEPT !.circuit = value])
    /\ UNCHANGED <<calcVars, authVars, repeatVars, pageVars>>

ChangeTyrePoints ==
    /\ events < MaxEvents
    /\ \E value \in PointTexts :
        Handled([strategy EXCEPT
                    !.tyrePoints = Max(1, OrElse(parseInt(value), 100))])
    /\ UNCHANGED <<calcVars, authVars, repeatVars, pageVars>>

ChangeFuelPoints ==
    /\ events < MaxEvents
    /\ \E value \in PointTexts :
        Handled([strategy EXCEPT
                    !.fuelPoints = Max(1, OrElse(parseInt(value), 100))])
    /\ UNCHANGED <<calcVars, authVars, repeatVars, pageVars>>

ChangeStints ==
    /\ events < MaxEvents
    /\ \E value \in StintCountTexts :
        LET newLength == Max(1, Min(5, OrElse(parseInt(value), 1)))
        IN  Handled([strategy EXCEPT !.stints = Resize(@, newLength)])
    /\ UNCHANGED <<calcVars, authVars, repeatVars, pageVars>>

ClickCompound ==
    /\ events < MaxEvents
    /\ \E index \in 0..(dom - 1), compound \in CompoundButtons :
        IF index < Len(strategy.stints)
        THEN Handled([strategy EXCEPT !.stints[index + 1].compound = compound])
        ELSE Thrown
    /\ UNCHANGED <<calcVars, authVars, repeatVars, pageVars>>

ChangeLaps ==
    /\ events < MaxEvents
    /\ \E index \in 0..(dom - 1), value \in LapsTexts :
        IF index < Len(strategy.stints)
        THEN Handled([strategy EXCEPT
                 !.stints[index + 1].laps = Max(1, OrElse(parseInt(value), 1))])
        ELSE Thrown
    /\ UNCHANGED <<calcVars, authVars, repeatVars, pageVars>>

ChangeBoost ==
    /\ events < MaxEvents
    /\ \E index \in 0..(dom - 1), value \in BoostOptions :
        IF index < Len(strategy.stints)
        THEN Handled([strategy EXCEPT !.stints[index + 1].boost = value])
        ELSE Thrown
    /\ UNCHANGED <<calcVars, authVars, repeatVars, pageVars>>

\* The button is drawn while the strategy has fewer than 5 stints.
AddStint ==
    /\ events < MaxEvents
    /\ dom < 5
    /\ IF Len(strategy.stints) < 5
       THEN Handled([strategy EXCEPT !.stints = Append(@, NewStint)])
       ELSE Thrown
    /\ UNCHANGED <<calcVars, authVars, repeatVars, pageVars>>

RemoveStint ==
    /\ events < MaxEvents
    /\ \E index \in RemoveButtons(dom) :
        Handled([strategy EXCEPT !.stints = Splice(@, index)])
    /\ UNCHANGED <<calcVars, authVars, repeatVars, pageVars>>

\* The call FerrariApp.optimizeStrategy makes for its strategy.
OptimizeResult(current) ==
    optimizeStrategy(
        current.circuit, circuitsData[current.circuit].laps,
        current.tyrePoints, current.fuelPoints,
        [maxStints |-> 3,
         preferredCompounds |-> <<"M", "S", "H">>,
         minStintLength |-> 5,
         maxStintLength |-> (circuitsData[current.circuit].laps * 7) \div 10])

\* result.data.recommended.stints.map(...): stint.boost || 'neutral' is the
\* boost, which the generator sets to 'neutral'.
RecommendedStints(result) ==
    [i \in 1..Len(result.data.recommended[1].stints) |->
        [compound |-> result.data.recommended[1].stints[i].compound,
         laps     |-> result.data.recommended[1].stints[i].laps,
         boost    |-> result.data.recommended[1].stints[i].boost]]

\* FerrariApp.optimizeStrategy up to its await: when nobody is signed in
\* saveStrategy() returns at once and the render follows in the same task.
ClickOptimize ==
    /\ events < MaxEvents
    /\ \E result \in {OptimizeResult(strategy)} :
        IF result.success /\ result.data.recommended # <<>>
        THEN \E newStrategy \in
                 {[strategy EXCEPT !.stints = RecommendedStints(result)]} :
               /\ strategy' = newStrategy
               /\ saved' = saveStrategy(newStrategy)
               /\ IF isAuthenticated
                  THEN awaiting' = awaiting + 1 /\ dom' = dom
                  ELSE awaiting' = awaiting /\ dom' = Len(newStrategy.stints)
        ELSE UNCHANGED <<strategy, saved, dom, awaiting>>
    /\ events' = events + 1
    /\ UNCHANGED <<calcVars, authVars, repeatVars, pageVars>>

\* The save resolves and optimizeStrategy goes on to render().
ResumeOptimize ==
    /\ awaiting > 0
    /\ awaiting' = awaiting - 1
    /\ dom' = Len(strategy.stints)
    /\ UNCHANGED <<strategy, saved, events>>
    /\ UNCHANGED <<calcVars, authVars, repeatVars, pageVars>>

\* The page is loaded again: the default strategy, then loadUserStrategy.
ReloadPage ==
    /\ events < MaxEvents
    /\ strategy' = IF isAuthenticated /\ saved # <<>> THEN saved[1]
                   ELSE [circuit |-> "FRA", tyrePoints |-> 49,
                         fuelPoints |-> 100,
                         stints |-> <<[compound |-> "M", laps |-> 6,
                                       boost |-> "neutral"]>>]
    /\ dom' = Len(strategy'.stints)
    /\ awaiting' = 0
    /\ events' = events + 1
    /\ UNCHANGED saved
    /\ UNCHANGED <<calcVars, authVars, repeatVars, pageVars>>

NextPlanner ==
    \/ ChangeCircuit
    \/ ChangeTyrePoints
    \/ ChangeFuelPoints
    \/ ChangeStints
    \/ ClickCompound
    \/ ChangeLaps
    \/ ChangeBoost
    \/ AddStint
    \/ RemoveStint
    \/ ClickOptimize
    \/ ResumeOptimize
    \/ ReloadPage

\* The page as it is loaded with the session of an earlier login of the
\* default administrator still stored: loadSession restores it.
InitSignedIn ==
    /\ now = 0
    /\ users = (AdminName :> [password |-> hashPassword(AdminPassword),
                              isAdmin |-> TRUE])
    /\ attempts = <<>>
    /\ currentUser = <<[username |-> AdminName, isAdmin |-> TRUE,
                        loginTime |-> 0, expiresAt |-> sessionTimeout]>>
    /\ session = currentUser
    /\ pending = <<>>
    /\ failureLog = [i \in Identifiers |-> <<>>]
    /\ loggedIn = <<>>

InitPlannerSpec ==
    /\ InitCalc /\ (InitAuth \/ InitSignedIn) /\ InitPlanner /\ InitRepeat
    /\ InitPage

(***************************************************************************)
(* Calls made one after another on the same Calculations instance.  None   *)
(* of the five functions assigns to a field of the instance, to an entry   *)
(* of the catalog or the boost table, or to the strategy it is given.      *)
(***************************************************************************)
\* The calls a behaviour makes.
MaxCalls == 3

\* The strategies handed to analyzeStrategy in a series of calls.
RepeatStrategies ==
    { generateStrategies("FRA", 24, 49, 100, 3, <<"M", "S", "H">>, 5, 16)[k] :
          k \in {1, 6} }

\* A call returns: its arguments, its result and the strategy argument are
\* put on record.
Returned(c, result) ==
    /\ call' = c
    /\ ret' = result
    /\ history' = Append(history,
                         [call |-> c, ret |-> result,
                          after |-> IF "strategy" \in DOMAIN c
                                    THEN c.strategy ELSE <<>>])
    /\ UNCHANGED instance
    /\ UNCHANGED <<authVars, plannerVars, pageVars>>

RepeatTyreWear ==
    /\ Len(history) < MaxCalls
    /\ \E circuit \in {"MON", UnknownCircuit} :
           Returned([op |-> "calculateTyreWear", circuit |-> circuit,
                     compound |-> "S", laps |-> 10, tyrePoints |-> 100],
                    calculateTyreWear(circuit, "S", 10, 100))

RepeatFuel ==
    /\ Len(history) < MaxCalls
    /\ \E circuit \in {"MON", "constructor"} :
           Returned([op |-> "calculateFuel", circuit |-> circuit,
                     fuelPoints |-> 100],
                    calculateFuel(circuit, 100))

RepeatStintFuel ==
    /\ Len(history) < MaxCalls
    /\ \E boost \in {"alto", UnknownBoost} :
           Returned([op |-> "calculateStintFuel", circuit |-> "MON",
                     fuelPoints |-> 49, laps |-> 10, boost |-> boost],
                    calculateStintFuel("MON", 49, 10, boost))

RepeatOptimize ==
    /\ Len(history) < MaxCalls
    /\ \E circuit \in {"FRA", "MON"} :
           Returned([op |-> "optimizeStrategy", circuit |-> circuit,
                     totalLaps |-> circuitsData[circuit].laps,
                     tyrePoints |-> 49, fuelPoints |-> 100,
                     constraints |-> [maxStints |-> 3]],
                    optimizeStrategy(circuit, circuitsData[circuit].laps, 49, 100,
                                     [maxStints |-> 3]))

RepeatAnalyze ==
    /\ Len(history) < MaxCalls
    /\ \E plan \in RepeatStrategies :
           Returned([op |-> "analyzeStrategy", circuit |-> "FRA",
                     strategy |-> plan],
                    analyzeStrategy(plan, "FRA"))

NextRepeat ==
    \/ RepeatTyreWear
    \/ RepeatFuel
    \/ RepeatStintFuel
    \/ RepeatOptimize
    \/ RepeatAnalyze

(***************************************************************************)
(* The login form: the listener attachAuthEventListeners puts on the form, *)
(* the listener UI.attachGlobalEventListeners puts on the document, and    *)
(* the timer the latter starts.  A submit event reaches the form's         *)
(* listener first and the document's afterwards; handleLogin resumes from  *)
(* its await before or after the document's listener has run, as the       *)
(* promise it waits on is settled by then or not.                          *)
(***************************************************************************)
\* UI.setLoadingState on the submit button: the button and the entry of
\* loadingStates after it.  textContent reads the text of the spinner
\* markup, which is the loading text.
setLoadingState(element, states, isLoading, text) ==
    IF isLoading
    THEN [button        |-> [text |-> text, disabled |-> TRUE],
          loadingStates |-> <<[originalText     |-> element.text,
                               originalDisabled |-> element.disabled]>>]
    ELSE IF states # <<>>
    THEN [button        |-> [text     |-> states[1].originalText,
                             disabled |-> states[1].originalDisabled],
          loadingStates |-> <<>>]
    ELSE [button |-> element, loadingStates |-> states]

\* UI.validateForm on the login form: both fields are required, and the
\* password field is of type password.
validateForm(username, password) ==
    /\ Trim(username) # <<>>
    /\ Trim(password) # <<>>
    /\ validatePassword(Trim(password)) = <<>>

\* What is typed into the form.
FormUsernames == { AdminName, <<>> }

FormPasswords == { AdminPassword, OtherPassword }

\* The form is submitted with its button: the form's listener runs
\* handleLogin up to its first await, or to its end when the fields are
\* not valid.
SubmitLogin ==
    /\ attached
    /\ ~button.disabled
    /\ handler = "none"
    /\ ~bubbling
    /\ \E username \in FormUsernames, password \in FormPasswords :
         LET loading == setLoadingState(button, loadingStates, TRUE,
                                        LoginLoadingText)
             restored == setLoadingState(loading.button, loading.loadingStates,
                                         FALSE, DefaultLoadingText)
             identifier     == Identifier(username)
             rateLimitCheck == check(identifier)
         IN  IF ~validateForm(username, password)
             THEN /\ button' = restored.button
                  /\ loadingStates' = restored.loadingStates
                  /\ handler' = "none"
                  /\ UNCHANGED <<attempts, pending>>
             ELSE /\ button' = loading.button
                  /\ loadingStates' = loading.loadingStates
                  /\ attempts' = rateLimitCheck.attempts
                  /\ IF rateLimitCheck.allowed
                     THEN /\ handler' = "login"
                          /\ pending' = Append(pending,
                                               [identifier |-> identifier,
                                                username   |-> username,
                                                password   |-> password])
                     ELSE /\ handler' = "limited"
                          /\ pending' = pending
    /\ bubbling' = TRUE
    /\ UNCHANGED <<timers, attached>>
    /\ UNCHANGED <<now, users, currentUser, session, failureLog, loggedIn>>
    /\ UNCHANGED <<calcVars, plannerVars, repeatVars, storeVars,
                 chatVars>>

\* UI.handleFormSubmit: the event reaches the document.  No code sets
\* form.dataset.handled.
HandleFormSubmit ==
    /\ bubbling
    /\ LET loading == setLoadingState(button, loadingStates, TRUE,
                                      DefaultLoadingText)
       IN  /\ button' = loading.button
           /\ loadingStates' = loading.loadingStates
    /\ timers' = timers + 1
    /\ bubbling' = FALSE
    /\ UNCHANGED <<handler, attached>>
    /\ UNCHANGED <<calcVars, authVars, plannerVars, repeatVars, storeVars,
                 chatVars>>

\* handleLogin from its await on: loginWithRateLimit has answered; a
\* success draws the page anew, and the finally block runs in every case.
ResumeLogin ==
    /\ handler # "none"
    /\ LET restored == setLoadingState(button, loadingStates, FALSE,
                                       DefaultLoadingText)
       IN  /\ button' = restored.button
           /\ loadingStates' = restored.loadingStates
    /\ IF handler = "limited"
       THEN UNCHANGED <<authVars, attached>>
       ELSE LET c           == pending[1]
                loginResult == login(c.username, c.password)
            IN  /\ pending' = Tail(pending)
                /\ users' = loginResult.users
                /\ currentUser' = loginResult.currentUser
                /\ session' = loginResult.session
                /\ attempts' = IF loginResult.result.success
                               THEN reset(c.identifier)
                               ELSE record(c.identifier)
                /\ failureLog' =
                       [failureLog EXCEPT ![c.identifier] =
                           IF loginResult.result.success THEN <<>>
                           ELSE LastN(Append(@, now), maxAttempts)]
                /\ loggedIn' = IF loginResult.result.success
                               THEN << [username |-> loginResult.result.data.username,
                                        at       |-> now] >>
                               ELSE loggedIn
                /\ attached' = (attached /\ ~loginResult.result.success)
                /\ UNCHANGED now
    /\ handler' = "none"
    /\ UNCHANGED <<bubbling, timers>>
    /\ UNCHANGED <<calcVars, plannerVars, repeatVars, storeVars,
                 chatVars>>

\* A fallback timer of handleFormSubmit fires.
TimerFires ==
    /\ timers > 0
    /\ LET restored == setLoadingState(button, loadingStates, FALSE,
                                       DefaultLoadingText)
       IN  /\ button' = restored.button
           /\ loadingStates' = restored.loadingStates
    /\ timers' = timers - 1
    /\ UNCHANGED <<handler, bubbling, attached>>
    /\ UNCHANGED <<calcVars, authVars, plannerVars, repeatVars, storeVars,
                 chatVars>>

NextForm ==
    \/ SubmitLogin
    \/ HandleFormSubmit
    \/ ResumeLogin
    \/ TimerFires
    \/ Tick

(***************************************************************************)
(* Auth.register as steps of the pages that share the store.               *)
(***************************************************************************)
\* register(username, password, confirmPassword) on page c, up to its
\* first wait on Firebase: a users object found in the cache is used at
\* once.
Register ==
    /\ started < MaxStarted
    /\ started' = started + 1
    /\ \E c \in Clients, username \in RegisterNames,
          password \in RegisterPasswords, confirmPassword \in RegisterPasswords :
         LET validation == validateRegistration(username, password,
                                                confirmPassword)
             cachedData == getFromCache(c, UsersPath)
         IN  IF ~validation.success
             THEN /\ reply' = Reply("register", validation, 0, 0)
                  /\ registering' = registering
             ELSE IF cachedData # <<>>
             THEN RegisterWith(c, validation.data.username, password,
                               cachedData[1], registering)
             ELSE /\ registering' =
                         Append(registering,
                                [client   |-> c,
                                 username |-> validation.data.username,
                                 password |-> password,
                                 stage    |-> "getUsers"])
                  /\ reply' = reply
    /\ UNCHANGED <<cache, operations, writes, completed>>
    /\ UNCHANGED <<calcVars, authVars, plannerVars, repeatVars, formVars,
                 chatVars>>

\* firebase.get answers the getUsers of a register call: the users node is
\* cached and the call goes on.
GetUsersResolves ==
    /\ \E k \in 1..Len(registering) :
         LET r == registering[k]
         IN  /\ r.stage = "getUsers"
             /\ cache' = setCache(r.client, UsersPath, ValueAt(UsersPath), writes)
             /\ RegisterWith(r.client, r.username, r.password,
                             UsersOf(ValueAt(UsersPath)), Without(registering, k))
    /\ UNCHANGED <<operations, writes, completed, started>>
    /\ UNCHANGED <<calcVars, authVars, plannerVars, repeatVars, formVars,
                 chatVars>>

\* firebase.set answers the createUser of a register call: the record is
\* written under users/<name>, the cache entries of the path are dropped
\* and register returns.
CreateUserResolves ==
    /\ \E k \in 1..Len(registering) :
         LET r       == registering[k]
             newUser == [password |-> hashPassword(r.password),
                         isAdmin  |-> FALSE]
         IN  /\ r.stage = "createUser"
             /\ users' = (sanitizeInput(r.username) :> newUser) @@ users
             /\ cache' = invalidateCache(r.client,
                                         UserPath(sanitizeInput(r.username)))
             /\ registering' = Without(registering, k)
             /\ reply' = Reply("register",
                               handleSuccess(<<>>, "Usuario creado exitosamente"),
                               0, 0)
    /\ writes' = writes + 1
    /\ UNCHANGED <<operations, completed, started>>
    /\ UNCHANGED <<now, attempts, currentUser, session, pending, failureLog,
                   loggedIn>>
    /\ UNCHANGED <<calcVars, plannerVars, repeatVars, formVars,
                 chatVars>>

NextRegister ==
    \/ Register
    \/ GetUsersResolves
    \/ CreateUserResolves
    \/ Tick

(***************************************************************************)
(* Logins made one at a time, as the login form makes them, with the       *)
(* username spelled in more than one way.                                  *)
(***************************************************************************)
\* The calls a behaviour makes.
MaxSpelled == 7

\* loginWithRateLimit(username, password) up to its await, called when no
\* earlier call is waiting.
StartLoginSpelled ==
    /\ pending = <<>>
    /\ started < MaxSpelled
    /\ started' = started + 1
    /\ \E username \in SpelledUsernames, password \in PasswordInputs :
         LET identifier     == Identifier(username)
             rateLimitCheck == check(identifier)
         IN  /\ attempts' = rateLimitCheck.attempts
             /\ pending' = IF rateLimitCheck.allowed
                           THEN Append(pending, [identifier |-> identifier,
                                                 username   |-> username,
                                                 password   |-> password])
                           ELSE pending
    /\ UNCHANGED <<now, users, currentUser, session, failureLog, loggedIn>>
    /\ UNCHANGED <<cache, registering, operations, reply, writes, completed>>
    /\ UNCHANGED <<calcVars, plannerVars, repeatVars, formVars,
                 chatVars>>

NextSpelled ==
    \/ StartLoginSpelled
    \/ ResolveLogin
    \/ Tick

(***************************************************************************)
(* Auth.login called on its own, one call after another.                   *)
(***************************************************************************)
\* The passwords given to login(): the account's, another, and the string
\* the store holds for the account once its password has been hashed.
LoginPasswords == { AdminPassword, OtherPassword, HashAsPassword }

\* login(username, password) from call to return; the call is put on
\* record with the password the store held for the account before it.
LoginCall ==
    /\ \E password \in LoginPasswords :
         LET loginResult == login(AdminName, password)
         IN  /\ call' = [op       |-> "login",
                         username |-> AdminName,
                         password |-> password,
                         stored   |-> users[AdminName].password]
             /\ ret' = loginResult.result
             /\ users' = loginResult.users
             /\ currentUser' = loginResult.currentUser
             /\ session' = loginResult.session
             /\ loggedIn' = IF loginResult.result.success
                            THEN << [username |-> loginResult.result.data.username,
                                     at       |-> now] >>
                            ELSE loggedIn
    /\ UNCHANGED <<now, attempts, pending, failureLog>>
    /\ UNCHANGED <<plannerVars, repeatVars, pageVars>>

NextLogin ==
    \/ LoginCall
    \/ Logout
    \/ Tick

(***************************************************************************)
(* Database.executeOperation on the first page, as the steps between its   *)
(* awaits.  Firebase answers the requests it has been sent one at a time,  *)
(* and executeOperation resumes when the answer has arrived; nothing in    *)
(* executeOperation orders the answers of two requests.                    *)
(***************************************************************************)
\* executeOperation('get', path) up to its await: data found in the cache
\* is returned at once.
ExecuteGet ==
    /\ started < MaxStarted
    /\ started' = started + 1
    /\ \E path \in StorePaths :
         LET cachedData == getFromCache(1, path)
         IN  IF cachedData # <<>>
             THEN /\ reply' = Reply("get",
                                    handleSuccess(cachedData,
                                                  "Data retrieved from cache"),
                                    cache[1][path].readAt, completed[path])
                  /\ operations' = operations
             ELSE /\ operations' =
                         Append(operations,
                                [op |-> "get", path |-> path, data |-> <<>>,
                                 phase |-> "sent", index |-> 0,
                                 needed |-> completed[path]])
                  /\ reply' = reply
    /\ UNCHANGED <<cache, registering, writes, completed>>
    /\ UNCHANGED <<calcVars, authVars, plannerVars, repeatVars, formVars,
                 chatVars>>

\* executeOperation('set', path, data) or executeOperation('remove', path)
\* up to its await.
ExecuteWrite ==
    /\ started < MaxStarted
    /\ started' = started + 1
    /\ \E data \in { <<d>> : d \in WriteData } \cup { <<>> } :
         operations' =
             Append(operations,
                    [op |-> IF data = <<>> THEN "remove" ELSE "set",
                     path |-> UserPath(NewName), data |-> data,
                     phase |-> "sent", index |-> 0, needed |-> 0])
    /\ UNCHANGED <<cache, registering, reply, writes, completed>>
    /\ UNCHANGED <<calcVars, authVars, plannerVars, repeatVars, formVars,
                 chatVars>>

\* Firebase serves a request: a get reads the value at its path, a set or
\* a remove is performed on the store.
FirebaseServes ==
    /\ \E k \in 1..Len(operations) :
         LET o == operations[k]
         IN  /\ o.phase = "sent"
             /\ IF o.op = "get"
                THEN /\ operations' =
                            [operations EXCEPT ![k] =
                                [o EXCEPT !.phase = "served",
                                          !.data = ValueAt(o.path),
                                          !.index = writes]]
                     /\ UNCHANGED <<users, writes>>
                ELSE /\ operations' =
                            [operations EXCEPT ![k] =
                                [o EXCEPT !.phase = "served",
                                          !.index = writes + 1]]
                     /\ writes' = writes + 1
                     /\ users' = IF o.op = "set"
                                 THEN (NewName :> o.data[1]) @@ users
                                 ELSE [n \in DOMAIN users \ {NewName} |-> users[n]]
    /\ UNCHANGED <<cache, registering, reply, completed, started>>
    /\ UNCHANGED <<now, attempts, currentUser, session, pending, failureLog,
                   loggedIn>>
    /\ UNCHANGED <<calcVars, plannerVars, repeatVars, formVars,
                 chatVars>>

\* executeOperation from its await on: a get caches what was read and
\* returns it; a set or a remove invalidates the cache and returns.
OperationReturns ==
    /\ \E k \in 1..Len(operations) :
         LET o == operations[k]
         IN  /\ o.phase = "served"
             /\ operations' = Without(operations, k)
             /\ IF o.op = "get"
                THEN /\ cache' = setCache(1, o.path, o.data, o.index)
                     /\ reply' = Reply("get",
                                       handleSuccess(o.data,
                                                     "Data retrieved successfully"),
                                       o.index, o.needed)
                     /\ completed' = completed
                ELSE /\ cache' = invalidateCache(1, o.path)
                     /\ reply' = Reply(o.op,
                                       handleSuccess(o.data,
                                                     IF o.op = "set"
                                                     THEN "Data saved successfully"
                                                     ELSE "Data removed successfully"),
                                       0, 0)
                     /\ completed' =
                            [q \in StorePaths |->
                                IF Related(q, o.path)
                                THEN Max(completed[q], o.index)
                                ELSE completed[q]]
    /\ UNCHANGED <<registering, writes, started>>
    /\ UNCHANGED <<calcVars, authVars, plannerVars, repeatVars, formVars,
                 chatVars>>

NextStore ==
    \/ ExecuteGet
    \/ ExecuteWrite
    \/ FirebaseServes
    \/ OperationReturns
    \/ Tick

(***************************************************************************)
(* The chat: a message typed into the chat form is stored by               *)
(* Database.createMessage, comes back through the subscription to the      *)
(* messages node and is rendered by renderChatSection.                     *)
(***************************************************************************)
MaxMessages == 2

MaxTextLen == 2

ChatChars == {"a", "&", "<", "/"}

\* The texts typed into the chat input: one to MaxTextLen characters.
ChatTexts ==
    UNION { [1..n -> ChatChars] : n \in 1..MaxTextLen }

\* Database.createMessage: the record it writes under messages/<id>.
createMessage(messageData) ==
    [user  |-> sanitizeInput(messageData.user),
     text  |-> sanitizeInput(messageData.text),
     typed |-> messageData.text]

\* FerrariApp.renderChatSection: what it puts in the markup per message.
renderChatSection(msgs) ==
    [k \in 1..Len(msgs) |->
        [user |-> sanitizeInput(msgs[k].user),
         text |-> sanitizeInput(msgs[k].text)]]

\* FerrariApp.handleChatMessage for the text in the chat input, with the
\* logged-in user: the message is written to the store.
HandleChatMessage ==
    \E value \in ChatTexts :
        LET message == Trim(value)
        IN  /\ message # <<>>
            /\ Len(messages) < MaxMessages
            /\ messages' = Append(messages,
                    createMessage([user |-> AdminName, text |-> message]))
            /\ UNCHANGED <<stateMessages, markup>>
            /\ UNCHANGED <<calcVars, authVars, plannerVars, repeatVars,
                           formVars, storeVars>>

\* The subscription callback of the messages node, with the chat section
\* shown: state.messages is replaced and the page rendered.
OnMessages ==
    /\ stateMessages # messages
    /\ stateMessages' = messages
    /\ markup' = renderChatSection(messages)
    /\ UNCHANGED messages
    /\ UNCHANGED <<calcVars, authVars, plannerVars, repeatVars,
                   formVars, storeVars>>

NextChat == HandleChatMessage \/ OnMessages

Spec == Init /\ [][NextCalc]_vars

SpecRepeat == Init /\ [][NextRepeat]_vars

SpecPlanner == InitPlannerSpec /\ [][NextPlanner]_vars

SpecAuth == Init /\ [][NextAuth]_vars

SpecForm == Init /\ [][NextForm]_vars

SpecStore == Init /\ [][NextStore]_vars

SpecLogin == Init /\ [][NextLogin]_vars

SpecSpelled == Init /\ [][NextSpelled]_vars

SpecRegister == Init /\ [][NextRegister]_vars

SpecChat == Init /\ [][NextChat]_vars

(***************************************************************************)
(* Properties of the strategy generator.                                   *)
(***************************************************************************)
\* The sum of the lap counts of a stint sequence.
LapTotal(stints) ==
    LET f[i \in 0..Len(stints)] == IF i = 0 THEN 0 ELSE f[i - 1] + stints[i].laps
    IN  f[Len(stints)]

\* C1: every strategy generateStrategies returns has stint lap counts that sum
\* exactly to totalLaps, and every stint has a lap count > 0.
C1_StintsSumToTotalLaps ==
    call.op = "generateStrategies" =>
        \A i \in 1..Len(ret) :
            /\ LapTotal(ret[i].stints) = call.totalLaps
            /\ \A j \in 1..Len(ret[i].stints) : ret[i].stints[j].laps > 0

\* The stint counts whose even split floor(totalLaps / n) lies in [lo, hi].
SplitWithin(n, lo, hi) ==
    /\ call.totalLaps \div n >= lo
    /\ call.totalLaps \div n <= hi

\* C1 witness: a stint count passed the length filter, its candidates had a
\* stint without laps and were dropped, and other candidates were returned.
C1_Witness ==
    /\ call.op = "generateStrategies"
    /\ Len(ret) > 0
    /\ call.compounds # <<>>
    /\ \E n \in 1..call.maxStints :
          /\ SplitWithin(n, call.minLength, call.maxLength)
          /\ \A i \in 1..Len(ret) : Len(ret[i].stints) # n

\* The (stint count, compound) pairs in generation order, for the stint counts
\* from n on whose even split lies in [lo, maxLength].
RECURSIVE PairsFrom(_, _)
PairsFrom(n, lo) ==
    IF n > call.maxStints THEN <<>>
    ELSE (IF SplitWithin(n, lo, call.maxLength)
          THEN [k \in 1..Len(call.compounds) |->
                    [numStints |-> n, compound |-> call.compounds[k]]]
          ELSE <<>>) \o PairsFrom(n + 1, lo)

\* ret holds exactly one candidate per pair, in the order of the pairs.  The
\* compound of a pair shows in the single stint of a one-stint candidate and
\* in the middle stints of a candidate of three stints or more.
OneCandidatePerPair(pairs) ==
    /\ Len(ret) = Len(pairs)
    /\ \A i \in 1..Len(ret) :
          LET st == ret[i].stints
          IN  /\ Len(st) = pairs[i].numStints
              /\ Len(st) = 1 => st[1].compound = pairs[i].compound
              /\ \A j \in 2..(Len(st) - 1) : st[j].compound = pairs[i].compound

\* C6 as stated: generateStrategies produces exactly one candidate for each
\* pair (stintCount, compound) with floor(totalLaps / stintCount) within
\* [minStintLength, maxStintLength], none for other stint counts, ordered by
\* stint count, then by position of the compound in preferredCompounds.
C6_OneCandidatePerQualifyingPair ==
    call.op = "generateStrategies" =>
        OneCandidatePerPair(PairsFrom(1, call.minLength))

\* C6 amended: the same, for the stint counts whose even split
\* floor(totalLaps / stintCount) is also at least 1; the candidates of a
\* stint count with an even split of 0 laps or less are dropped.
C6_OneCandidatePerPairWithLaps ==
    call.op = "generateStrategies" =>
        OneCandidatePerPair(PairsFrom(1, Max(1, call.minLength)))

\* C6 witness: totalLaps = 24, maxStints = 3, min = 5, max = 16 leaves out the
\* single stint and returns the two- and three-stint candidates.
C6_Witness ==
    /\ call.op = "generateStrategies"
    /\ call.totalLaps = 24 /\ call.maxStints = 3
    /\ call.minLength = 5 /\ call.maxLength = 16
    /\ call.compounds = <<"M", "S">>
    /\ [i \in 1..Len(ret) |-> Len(ret[i].stints)] = <<2, 2, 3, 3>>

\* C7: a generated strategy of more than one stint starts on Soft, ends on
\* Hard and runs every middle stint on the compound it was generated for; a
\* single-stint strategy runs on that compound; every boost is neutral and
\* the stints are numbered 1..stintCount.
C7_CompoundPattern ==
    call.op = "generateStrategies" =>
        \A i \in 1..Len(ret) :
            LET st == ret[i].stints
                n  == Len(st)
                \* the position of the candidate among those of its stint count
                k  == Cardinality({h \in 1..i : Len(ret[h].stints) = n})
                primary == call.compounds[k]
            IN  /\ n > 1 => /\ st[1].compound = "S"
                            /\ st[n].compound = "H"
                            /\ \A j \in 2..(n - 1) : st[j].compound = primary
                /\ n = 1 => st[1].compound = primary
                /\ \A j \in 1..n : st[j].boost = "neutral" /\ st[j].stint = j

\* C7 witness: a result holding a single-stint plan on SuperSoft and a plan
\* of four stints or more with SuperSoft in the middle.
C7_Witness ==
    /\ call.op = "generateStrategies"
    /\ \E i, h \in 1..Len(ret) :
          /\ Len(ret[i].stints) = 1 /\ ret[i].stints[1].compound = "SS"
          /\ Len(ret[h].stints) >= 4 /\ ret[h].stints[2].compound = "SS"
                                     /\ ret[h].stints[3].compound = "SS"

(***************************************************************************)
(* Properties of the strategy evaluator.                                   *)
(***************************************************************************)
\* The strategies of an optimizeStrategy result, best first.
Ranked == ret.data.recommended \o ret.data.alternatives

\* The tyre penalty of one stint for a `remaining` in hundredths.
TyrePenalty(remaining) ==
    IF remaining < 2000 THEN 30
    ELSE IF remaining < 4000 THEN 15
    ELSE IF remaining > 8000 THEN 5
    ELSE 0

\* The score written out: 100, 15 per stop, 5 per stint of 8 to 25 laps, the
\* tyre penalties of the stints for the remaining values rem[i], floored at 0.
ScoreFrom(stints, rem) ==
    LET n       == Len(stints)
        bonus   == Cardinality({i \in 1..n : stints[i].laps \in 8..25})
        penalty == LET f[i \in 0..n] ==
                           IF i = 0 THEN 0 ELSE f[i - 1] + TyrePenalty(rem[i])
                   IN  f[n]
        raw     == 100 - 15 * (n - 1) + 5 * bonus - penalty
    IN  IF raw < 0 THEN 0 ELSE raw

\* The remaining tyre of each stint on the circuit with code `circuit`.
RemainingOn(circuit, stints) ==
    [i \in 1..Len(stints) |->
        calculateTyreWear(circuit, stints[i].compound, stints[i].laps, 100).remaining]

\* C2: when a candidate is scored for circuit code C, every stint is judged
\* by the remaining tyre the Tyre Wear Model computes for circuit C with the
\* stint's compound and laps at 100 tyre points (30 below 20, else 15 below
\* 40, else 5 above 80), for every circuit code of the catalog.
C2_ScoreUsesCircuitTyreWear ==
    /\ call.op = "evaluateStrategy" =>
           ret = ScoreFrom(call.strategy.stints,
                           RemainingOn(call.circuit, call.strategy.stints))
    /\ (call.op = "optimizeStrategy" /\ ret.success) =>
           \A j \in 1..Len(Ranked) :
               Ranked[j].score =
                   ScoreFrom(Ranked[j].stints,
                             RemainingOn(call.circuit, Ranked[j].stints))

\* C9: the score is 100 - 15 * (stintCount - 1) + 5 per stint of 8 to 25
\* laps - the tyre penalties of the stints (for the remaining values the
\* evaluator reads, which it asks for the circuit's display name), floored
\* at 0: an integer >= 0.
C9_ScoreFormula ==
    call.op = "evaluateStrategy" =>
        /\ ret = ScoreFrom(call.strategy.stints,
                           RemainingOn(circuitsData[call.circuit].name,
                                       call.strategy.stints))
        /\ ret \in Nat

\* C9 witness: a score floored at 0, and so a sum below 0.
C9_Witness ==
    /\ call.op = "evaluateStrategy"
    /\ ret = 0
    /\ EvaluateStints(call.strategy.stints, circuitsData[call.circuit], 1,
                      100 - (Len(call.strategy.stints) - 1) * 15) < 0

\* The candidates the generator yields for the call's arguments.
CallCandidates ==
    LET k == DestructureConstraints(call.constraints, call.totalLaps)
    IN  generateStrategies(call.circuit, call.totalLaps, call.tyrePoints,
                           call.fuelPoints, k.maxStints, k.preferredCompounds,
                           k.minStintLength, k.maxStintLength)

\* C3: in a successful result with a recommended strategy, the recommended
\* score is >= every alternative's, the alternatives are in descending score
\* order, and they are at most four: the next four after the top one, no
\* candidate left out scoring more than a listed one.
C3_RecommendedIsBest ==
    (call.op = "optimizeStrategy" /\ ret.success /\ ret.data.recommended # <<>>) =>
        LET rec == ret.data.recommended[1]
            alt == ret.data.alternatives
            all == CallCandidates
        IN  /\ \A i \in 1..Len(alt) : rec.score >= alt[i].score
            /\ \A i \in 1..(Len(alt) - 1) : alt[i].score >= alt[i + 1].score
            /\ Len(alt) <= 4
            /\ Len(alt) = (IF Len(all) > 5 THEN 5 ELSE Len(all)) - 1
            /\ \A i \in 1..Len(all) :
                  LET sc == evaluateStrategy(all[i], CatalogEntry(call.circuit))
                  IN  \/ \A j \in 1..Len(Ranked) : Ranked[j].score >= sc
                      \/ \E j \in 1..Len(Ranked) :
                            /\ Ranked[j].stints = all[i].stints
                            /\ Ranked[j].score = sc

\* C3 witness: four alternatives, the last scoring less than the recommended.
C3_Witness ==
    /\ call.op = "optimizeStrategy"
    /\ ret.success
    /\ Len(ret.data.alternatives) = 4
    /\ ret.data.recommended[1].score > ret.data.alternatives[4].score
    /\ Len(CallCandidates) > 5

\* C8: optimizeStrategy returns a failure result for a circuit code that is
\* not in the catalog, and a success result with no recommended strategy and
\* no alternatives when the generator yields no candidate for a catalog
\* circuit.
C8_FailureAndEmptyResults ==
    call.op = "optimizeStrategy" =>
        /\ call.circuit \notin DOMAIN circuitsData =>
              /\ ret.success = FALSE
              /\ ret.error = "Circuito no encontrado"
        /\ (call.circuit \in DOMAIN circuitsData /\ CallCandidates = <<>>) =>
              /\ ret.success = TRUE
              /\ ret.data.recommended = <<>>
              /\ ret.data.alternatives = <<>>

(***************************************************************************)
(* Properties of the strategy comparator.                                  *)
(***************************************************************************)
\* C10: riskLevel is the sum over the stints of 2 where the remaining tyre on
\* the given circuit (100 tyre points) is below 30, else 1 where it is below
\* 50, else 0; so 0 <= riskLevel <= 2 * stintCount.
C10_RiskLevel ==
    call.op = "analyzeStrategy" =>
        LET st  == call.strategy.stints
            rem == RemainingOn(call.circuit, st)
            two == {i \in 1..Len(st) : Less(rem[i], 3000)}
            one == {i \in 1..Len(st) : ~Less(rem[i], 3000) /\ Less(rem[i], 5000)}
        IN  /\ ret.riskLevel = 2 * Cardinality(two) + Cardinality(one)
            /\ ret.riskLevel >= 0
            /\ ret.riskLevel <= 2 * Len(st)

\* C10 witness: a strategy with a stint below 30, a stint between 30 and 50
\* and a stint at 50 or more.
C10_Witness ==
    /\ call.op = "analyzeStrategy"
    /\ ret.riskLevel = 3
    /\ LET rem == RemainingOn(call.circuit, call.strategy.stints)
       IN  /\ \E i \in DOMAIN rem : Less(rem[i], 3000)
           /\ \E i \in DOMAIN rem : rem[i] >= 3000 /\ rem[i] < 5000
           /\ \E i \in DOMAIN rem : rem[i] >= 5000

(***************************************************************************)
(* Properties of Auth.                                                     *)
(***************************************************************************)
\* C4: for any identifier, once 5 failed loginWithRateLimit attempts have
\* been recorded within a 15-minute window, every further call for that
\* identifier made before 15 minutes have passed since the 5th failure is
\* rejected (and so does not reach login()).
C4_LockedAfterFiveFailures ==
    [][\A u \in UsernameInputs :
          LET f == failureLog[Identifier(u)]
          IN  ( /\ Len(f) = maxAttempts
                /\ f[maxAttempts] - f[1] <= lockoutTime
                /\ now - f[maxAttempts] < lockoutTime )
              => ~( /\ Len(pending') = Len(pending) + 1
                    /\ pending'[Len(pending')].identifier = Identifier(u) )]_vars

\* C5: after login() returns a success result, isAuthenticated() is true on
\* the same instance and getCurrentUser() is that user, until logout() or
\* until the session timeout has elapsed.
C5_AuthenticatedAfterLogin ==
    (loggedIn # <<>> /\ now - loggedIn[1].at < sessionTimeout) =>
        /\ isAuthenticated
        /\ getCurrentUser[1].username = loggedIn[1].username

\* C11: analyzeStrategy reports estimatedTime = 90 * (sum of the stint lap
\* counts) + 25 * (stintCount - 1) and pitStops = stintCount - 1, whatever
\* the circuit and the compounds.
C11_EstimatedTime ==
    call.op = "analyzeStrategy" =>
        LET st == call.strategy.stints
        IN  /\ ret.estimatedTime = 90 * LapTotal(st) + 25 * (Len(st) - 1)
            /\ ret.pitStops = Len(st) - 1
            /\ \A c \in {"MON", "USA", UnknownCircuit} :
                  /\ analyzeStrategy(call.strategy, c).estimatedTime = ret.estimatedTime
                  /\ analyzeStrategy(call.strategy, c).pitStops = ret.pitStops

\* C11 witness: a strategy of three stints of different compounds.
C11_Witness ==
    /\ call.op = "analyzeStrategy"
    /\ Len(call.strategy.stints) = 3
    /\ call.strategy.stints[2].compound = "SS"
    /\ ret.pitStops = 2
    /\ ret.estimatedTime = 90 * call.strategy.stints[1].laps
                           + 90 * call.strategy.stints[2].laps
                           + 90 * call.strategy.stints[3].laps + 50


\* C12: calculateTyreWear, calculateFuel and calculateStintFuel return a
\* failure (error set, success not true) when the circuit code is not in the
\* catalog or a numeric input is zero or negative, and a success for a
\* catalog circuit with every numeric input at least 1.
C12_Numeric(c) ==
    CASE c.op = "calculateTyreWear"  -> {c.laps, c.tyrePoints}
      [] c.op = "calculateFuel"      -> {c.fuelPoints}
      [] c.op = "calculateStintFuel" -> {c.fuelPoints, c.laps}

C12_Failed(r) == r.success # TRUE /\ r.error # ""

C12_FailureOnBadInput ==
    call.op \in {"calculateTyreWear", "calculateFuel", "calculateStintFuel"} =>
        /\ (call.circuit \notin DOMAIN circuitsData
            \/ \E x \in C12_Numeric(call) : x <= 0) => C12_Failed(ret)
        /\ (call.circuit \in DOMAIN circuitsData
            /\ \A x \in C12_Numeric(call) : x >= 1) => ret.success = TRUE

\* C13: calculateStintFuel with a boost key that is not in the boost table
\* gives the multiplier, stintFuel, fuelPerLap, fuelSaving and time impact
\* (0 per lap, direction 'neutral') of the boost 'neutral'.
C13_SameAsNeutral(r, n) ==
    /\ r.boostInfo.multiplier = n.boostInfo.multiplier
    /\ r.stintFuel = n.stintFuel
    /\ r.fuelPerLap = n.fuelPerLap
    /\ r.fuelSaving = n.fuelSaving
    /\ r.timeImpact = n.timeImpact
    /\ r.timeImpact.perLap = 0
    /\ r.timeImpact.direction = "neutral"

C13_UnknownBoostIsNeutral ==
    (/\ call.op = "calculateStintFuel"
     /\ call.boost \notin DOMAIN boostLevels
     /\ ret.success) =>
        C13_SameAsNeutral(
            ret.data,
            calculateStintFuel(call.circuit, call.fuelPoints, call.laps,
                               "neutral").data)

\* C14: after any sequence of planner operations (set the number of stints,
\* add or remove a stint, edit laps, compound or boost, change the circuit,
\* optimize) the strategy holds between 1 and 5 stints and every stint's lap
\* count is an integer of at least 1.
C14_StintsInRange ==
    /\ Len(strategy.stints) \in 1..5
    /\ \A i \in 1..Len(strategy.stints) :
          strategy.stints[i].laps \in Nat \ {0}

\* The first stint was removed: the only stint left is one that was added,
\* and its card is drawn without a remove button.
C14_Witness ==
    /\ strategy.stints = <<NewStint>>
    /\ dom = 1
    /\ RemoveButtons(dom) = {}
    /\ events >= 2

\* C15: for the same circuit, tyre points and lap count the wear rate on the
\* compound is strictly ordered Hard < Soft < Medium < SuperSoft, and Hard
\* yields a smaller totalWear than SuperSoft.
C15_OnCompound(k) ==
    calculateTyreWear(call.circuit, k, call.laps, call.tyrePoints)

C15_ValidCall ==
    /\ call.op = "calculateTyreWear"
    /\ call.circuit \in DOMAIN circuitsData
    /\ call.compound = "H"
    /\ call.laps >= 1
    /\ call.tyrePoints >= 1

C15_RateOrder ==
    /\ ret.baseWearWithCompound < C15_OnCompound("S").baseWearWithCompound
    /\ C15_OnCompound("S").baseWearWithCompound
           < C15_OnCompound("M").baseWearWithCompound
    /\ C15_OnCompound("M").baseWearWithCompound
           < C15_OnCompound("SS").baseWearWithCompound

C17_DocumentedRate(c, compound, tyrePoints) ==
    LET W_M  == BaseWear(c, tyrePoints)
        W_SS == MulFix(W_M, 206000000)
    IN  CASE compound = "SS" -> W_SS
          [] compound = "S"  -> MulFix(W_SS, 64200000)
          [] compound = "H"  -> MulFix(W_SS, 37500000)

C17_RatesAsDocumented ==
    (/\ call.op = "calculateTyreWear"
     /\ call.circuit \in DOMAIN circuitsData
     /\ call.compound \in {"SS", "S", "H"}
     /\ call.laps >= 1
     /\ call.tyrePoints >= 1) =>
        ret.baseWearWithCompound =
            FormatThousandths(
                C17_DocumentedRate(circuitsData[call.circuit], call.compound,
                                   call.tyrePoints))

\* C16: after logout() isAuthenticated() and isAdmin() are false and the
\* stored session is removed, so a newly constructed Auth does not restore
\* the user; this stays so until the next successful login.
C16_NoUser ==
    /\ currentUser = <<>>
    /\ session = <<>>
    /\ ~isAuthenticated
    /\ ~isAdmin

C16_LoggedOutUntilLogin ==
    [][(Logout \/ (C16_NoUser /\ loggedIn' = <<>>)) => C16_NoUser']_vars

\* The default administrator has logged in (the stored password is the hash
\* login() replaced it with) and, before the session could expire, is logged
\* out, with no login in flight.
C16_Witness ==
    /\ users[AdminName].password = hashPassword(AdminPassword)
    /\ now < sessionTimeout
    /\ C16_NoUser
    /\ attempts = <<>>
    /\ pending = <<>>

\* C18: for every catalog circuit, compound and tyre-point value of at least
\* 1 the remaining percentage calculateTyreWear reports does not increase as
\* the lap count increases, and lies strictly between 0 and 100 for a lap
\* count of at least 1.
C18_ValidCall ==
    /\ call.op = "calculateTyreWear"
    /\ call.circuit \in DOMAIN circuitsData
    /\ call.laps >= 1
    /\ call.tyrePoints >= 1

C18_NonIncreasing ==
    calculateTyreWear(call.circuit, call.compound, call.laps + 1,
                      call.tyrePoints).remaining <= ret.remaining

C18_RemainingStrictlyInside ==
    C18_ValidCall =>
        /\ C18_NonIncreasing
        /\ 0 < ret.remaining
        /\ ret.remaining < 10000

\* C18, amended: the reported remaining does not increase with the lap count
\* and lies in [0, 100): below 100, and 0.00 once the tyre is worn out.
C18_RemainingBelowHundred ==
    C18_ValidCall =>
        /\ C18_NonIncreasing
        /\ 0 <= ret.remaining
        /\ ret.remaining < 10000

\* Within a race distance the tyre is reported at 0.00.
C18_Witness ==
    /\ C18_ValidCall
    /\ call.laps <= MaxLaps
    /\ ret.success
    /\ ret.remaining = 0

C20_EveryStintWithinLimits ==
    call.op = "generateStrategies" =>
        \A k \in 1..Len(ret) :
            \A i \in 1..Len(ret[k].stints) :
                /\ ret[k].stints[i].laps >= call.minLength
                /\ ret[k].stints[i].laps <= call.maxLength

(***************************************************************************)
(* C21: once a submission of the login form has been processed in full --  *)
(* handleLogin has returned, the document's listener has run for the       *)
(* event and no fallback timer is left to fire -- the submit button of the *)
(* form in the document shows its original label and is enabled.           *)
(***************************************************************************)
C21_Processed ==
    handler = "none" /\ ~bubbling /\ timers = 0

C21_ButtonRestored ==
    (attached /\ C21_Processed) =>
        button = [text |-> OriginalLabel, disabled |-> FALSE]

(***************************************************************************)
(* C22: register never overwrites an existing account: no step of a        *)
(* register call changes or removes a user record the remote store holds,  *)
(* whichever page made the call and whatever that page had cached.         *)
(***************************************************************************)
C22_NeverOverwrites ==
    [][\A n \in DOMAIN users : n \in DOMAIN users' /\ users'[n] = users[n]]_vars

(***************************************************************************)
(* C23: the rate limit holds under overlapping calls: the failures counted *)
(* for an identifier in one window of the limiter, each a login() that was *)
(* evaluated and failed, never number more than five.                      *)
(***************************************************************************)
C23_AtMostFiveFailures ==
    \A i \in DOMAIN attempts : attempts[i].count <= maxAttempts

(***************************************************************************)
(* C24: rate limiting is per account: the failed logins recorded within    *)
(* the last fifteen minutes under all the identifiers whose usernames      *)
(* login() resolves to one account number at most five together, however   *)
(* the username was spelled.                                               *)
(***************************************************************************)
\* The failures of an identifier recorded less than fifteen minutes ago.
C24_RecentFailures(i) ==
    Cardinality({ k \in 1..Len(failureLog[i]) :
                    now - failureLog[i][k] < lockoutTime })

\* The account login() looks up for a username.
C24_Account(username) == sanitizeInput(Trim(username))

C24_FiveGuessesPerAccount ==
    \A u \in SpelledUsernames, v \in SpelledUsernames :
        (C24_Account(u) = C24_Account(v) /\ Identifier(u) # Identifier(v)) =>
            C24_RecentFailures(Identifier(u)) + C24_RecentFailures(Identifier(v))
                <= maxAttempts

(***************************************************************************)
(* C25: login succeeds only with the account's actual password -- for the  *)
(* default account, created with its password in plain text, the password  *)
(* Kirito49 -- and a login that fails leaves the stored record as it was.  *)
(* The string stored as the hash of the password is not a password.        *)
(***************************************************************************)
C25_OnlyActualPassword ==
    call.op = "login" =>
        /\ ret.success => call.password = AdminPassword
        /\ ~ret.success => users[call.username].password = call.stored

(***************************************************************************)
(* C26: cache coherence: a get that returns data read from the store has   *)
(* not been handed data read before a write to its path, an ancestor or a  *)
(* descendant that executeOperation had completed on the same instance     *)
(* when the get was called.                                                *)
(***************************************************************************)
C26_NoStaleRead ==
    (reply # <<>> /\ reply[1].op = "get") =>
        reply[1].readAt >= reply[1].needed

(***************************************************************************)
(* C28: the stints of a generated strategy are near-equal: the lap counts  *)
(* do not decrease from one stint to the next, no two stints differ by     *)
(* more than one lap, and the last stint has the laps the earlier stints   *)
(* leave of the race.                                                      *)
(***************************************************************************)
C28_NearEqual(stints, totalLaps) ==
    /\ \A i \in 1..Len(stints), j \in 1..Len(stints) :
          i < j => /\ stints[i].laps <= stints[j].laps
                   /\ stints[j].laps - stints[i].laps <= 1
    /\ stints[Len(stints)].laps =
          totalLaps - SumLaps(SubSeq(stints, 1, Len(stints) - 1))

C28_NearEqualStints ==
    call.op = "generateStrategies" =>
        \A k \in 1..Len(ret) : C28_NearEqual(ret[k].stints, call.totalLaps)

\* generateStrategies has returned a plan of three stints or more whose
\* laps are not all the same.
C28_Witness ==
    /\ call.op = "generateStrategies"
    /\ \E k \in 1..Len(ret) :
          /\ Len(ret[k].stints) >= 3
          /\ ret[k].stints[1].laps < ret[k].stints[Len(ret[k].stints)].laps
          /\ ret[k].stints[1].laps < ret[k].stints[2].laps

(***************************************************************************)
(* C29: the strategies generateStrategies returns, and so the recommended  *)
(* strategy and the alternatives of optimizeStrategy, are pairwise         *)
(* distinct as sequences of stints.                                        *)
(***************************************************************************)
\* The strategies the last call has returned.
C29_Returned ==
    IF call.op = "generateStrategies" THEN ret
    ELSE IF call.op = "optimizeStrategy" /\ ret.success THEN Ranked
    ELSE <<>>

C29_PairwiseDistinct ==
    \A i \in 1..Len(C29_Returned), j \in 1..Len(C29_Returned) :
        i < j => C29_Returned[i].stints # C29_Returned[j].stints

(***************************************************************************)
(* C27: lockout is temporary.  For an identifier that has been locked, a   *)
(* loginWithRateLimit call made once fifteen minutes have passed is let    *)
(* through by rateLimit.check, which restarts the failure count at 0.      *)
(***************************************************************************)
\* The identifier has had five failures counted or more.
C27_Locked(i) ==
    i \in DOMAIN attempts /\ attempts[i].count >= maxAttempts

\* When the fifth failure of the count was recorded, and the latest.
C27_FifthFailureAt(i) == failureLog[i][2 * maxAttempts - attempts[i].count]

C27_LastFailureAt(i) == failureLog[i][Len(failureLog[i])]

\* A call made now for the identifier passes the check with the count at 0.
C27_Passes(i) ==
    check(i).allowed /\ check(i).attempts[i].count = 0

\* C27 as stated: every call made fifteen minutes or more after the fifth
\* failure passes.
C27_PassesFifteenAfterFifth ==
    \A i \in Identifiers :
        (C27_Locked(i) /\ now >= C27_FifthFailureAt(i) + lockoutTime)
            => C27_Passes(i)

\* C27 amended: every call made more than fifteen minutes after the latest
\* failure recorded for the identifier passes.
C27_PassesAfterFifteenSinceLast ==
    \A i \in Identifiers :
        (C27_Locked(i) /\ now > C27_LastFailureAt(i) + lockoutTime)
            => C27_Passes(i)

\* A call has passed the check for an identifier whose lock has run out:
\* its record has been restarted and the call waits on login().
C27_Witness ==
    \E k \in 1..Len(pending) :
        LET i == pending[k].identifier
        IN  /\ i \in DOMAIN attempts
            /\ attempts[i].count = 0
            /\ attempts[i].lockedUntil > 0
            /\ attempts[i].lockedUntil <= now
            /\ attempts[i].firstAttempt = now
            /\ Len(failureLog[i]) = maxAttempts

(***************************************************************************)
(* C30: HTML escaping is applied exactly once between a chat message being *)
(* submitted and being displayed: the text in the markup of every rendered *)
(* message is sanitizeInput of the text that was typed.                    *)
(***************************************************************************)
C30_EscapedOnce ==
    \A k \in 1..Len(markup) :
        markup[k].text = sanitizeInput(stateMessages[k].typed)

====
